---- MODULE Spec2Model ----
(***************************************************************************)
(* Model of the semantic validator of chaim-bprint-spec                    *)
(* (src/validation/index.ts, extended variant with collection types).      *)
(*                                                                         *)
(* validateSchema takes an untyped JavaScript value.  JavaScript values    *)
(* are modelled as tagged records so that truthiness, typeof and           *)
(* Array.isArray are computed the way the language computes them.          *)
(***************************************************************************)
EXTENDS Integers, Sequences, FiniteSets, TLC

(***************************************************************************)
(* JavaScript values.                                                      *)
(*   numbers are rationals num/den (den > 0), enough for integers and      *)
(*   fractions such as 2.5; strings are atomic; arrays are sequences;      *)
(*   objects are functions from property names to values.                  *)
(***************************************************************************)
Undef == [t |-> "undefined"]
Null == [t |-> "null"]
Str(s) == [t |-> "string", s |-> s]
Num(n) == [t |-> "number", num |-> n, den |-> 1]
Frac(n, d) == [t |-> "number", num |-> n, den |-> d]
Bool(b) == [t |-> "boolean", b |-> b]
Arr(a) == [t |-> "array", a |-> a]
Obj(o) == [t |-> "object", o |-> o]

\* typeof v
TypeOf(v) ==
    CASE v.t = "undefined" -> "undefined"
      [] v.t = "null" -> "object"
      [] v.t = "array" -> "object"
      [] OTHER -> v.t

\* Array.isArray(v)
IsArray(v) == v.t = "array"

\* ToBoolean(v): the values for which !v is false
Truthy(v) ==
    CASE v.t = "undefined" -> FALSE
      [] v.t = "null" -> FALSE
      [] v.t = "string" -> v.s # ""
      [] v.t = "number" -> v.num # 0
      [] v.t = "boolean" -> v.b
      [] OTHER -> TRUE

\* v.k for a value v that is neither undefined nor null
Get(v, k) ==
    IF v.t = "object" /\ k \in DOMAIN v.o THEN v.o[k] ELSE Undef

\* a >= b in place of a > b
NumGt_OrEqual(a, b) == a.num * b.den >= b.num * a.den

\* a > b on numbers
NumGt(a, b) == a.num * b.den > b.num * a.den

\* Number.isInteger(v) for a number v
IsInteger(v) == v.num % v.den = 0

\* list.includes(v) for a list of string literals
Includes(list, v) == v.t = "string" /\ \E k \in 1..Len(list) : list[k] = v.s

\* the characters of the strings the model inspects character by character
Chars(s) ==
    CASE s = "" -> <<>>
      [] s = "userId" -> <<"u", "s", "e", "r", "I", "d">>
      [] s = "user_id" -> <<"u", "s", "e", "r", "_", "i", "d">>
      [] s = "_x" -> <<"_", "x">>
      [] s = "x1" -> <<"x", "1">>
      [] s = "1x" -> <<"1", "x">>
      [] s = "a-b" -> <<"a", "-", "b">>
      [] s = "Class" -> <<"C", "l", "a", "s", "s">>
      [] s = "[a-z]+" -> <<"[", "a", "-", "z", "]", "+">>
      [] s = "[a-z" -> <<"[", "a", "-", "z">>
      [] s = "a)" -> <<"a", ")">>
      [] s = "(a" -> <<"(", "a">>
      [] s = "(a)*" -> <<"(", "a", ")", "*">>
      [] s = "*a" -> <<"*", "a">>
      [] s = "a\\" -> <<"a", "\\">>
      [] s = "^\\d+$" -> <<"^", "\\", "d", "+", "$">>
      [] s = "abstract" -> <<"a", "b", "s", "t", "r", "a", "c", "t">>
      [] s = "assert" -> <<"a", "s", "s", "e", "r", "t">>
      [] s = "boolean" -> <<"b", "o", "o", "l", "e", "a", "n">>
      [] s = "break" -> <<"b", "r", "e", "a", "k">>
      [] s = "byte" -> <<"b", "y", "t", "e">>
      [] s = "case" -> <<"c", "a", "s", "e">>
      [] s = "catch" -> <<"c", "a", "t", "c", "h">>
      [] s = "char" -> <<"c", "h", "a", "r">>
      [] s = "class" -> <<"c", "l", "a", "s", "s">>
      [] s = "const" -> <<"c", "o", "n", "s", "t">>
      [] s = "continue" -> <<"c", "o", "n", "t", "i", "n", "u", "e">>
      [] s = "default" -> <<"d", "e", "f", "a", "u", "l", "t">>
      [] s = "do" -> <<"d", "o">>
      [] s = "double" -> <<"d", "o", "u", "b", "l", "e">>
      [] s = "else" -> <<"e", "l", "s", "e">>
      [] s = "enum" -> <<"e", "n", "u", "m">>
      [] s = "extends" -> <<"e", "x", "t", "e", "n", "d", "s">>
      [] s = "final" -> <<"f", "i", "n", "a", "l">>
      [] s = "finally" -> <<"f", "i", "n", "a", "l", "l", "y">>
      [] s = "float" -> <<"f", "l", "o", "a", "t">>
      [] s = "for" -> <<"f", "o", "r">>
      [] s = "goto" -> <<"g", "o", "t", "o">>
      [] s = "if" -> <<"i", "f">>
      [] s = "implements" -> <<"i", "m", "p", "l", "e", "m", "e", "n", "t", "s">>
      [] s = "import" -> <<"i", "m", "p", "o", "r", "t">>
      [] s = "instanceof" -> <<"i", "n", "s", "t", "a", "n", "c", "e", "o", "f">>
      [] s = "int" -> <<"i", "n", "t">>
      [] s = "interface" -> <<"i", "n", "t", "e", "r", "f", "a", "c", "e">>
      [] s = "long" -> <<"l", "o", "n", "g">>
      [] s = "native" -> <<"n", "a", "t", "i", "v", "e">>
      [] s = "new" -> <<"n", "e", "w">>
      [] s = "package" -> <<"p", "a", "c", "k", "a", "g", "e">>
      [] s = "private" -> <<"p", "r", "i", "v", "a", "t", "e">>
      [] s = "protected" -> <<"p", "r", "o", "t", "e", "c", "t", "e", "d">>
      [] s = "public" -> <<"p", "u", "b", "l", "i", "c">>
      [] s = "return" -> <<"r", "e", "t", "u", "r", "n">>
      [] s = "short" -> <<"s", "h", "o", "r", "t">>
      [] s = "static" -> <<"s", "t", "a", "t", "i", "c">>
      [] s = "strictfp" -> <<"s", "t", "r", "i", "c", "t", "f", "p">>
      [] s = "super" -> <<"s", "u", "p", "e", "r">>
      [] s = "switch" -> <<"s", "w", "i", "t", "c", "h">>
      [] s = "synchronized" -> <<"s", "y", "n", "c", "h", "r", "o", "n", "i", "z", "e", "d">>
      [] s = "this" -> <<"t", "h", "i", "s">>
      [] s = "throw" -> <<"t", "h", "r", "o", "w">>
      [] s = "throws" -> <<"t", "h", "r", "o", "w", "s">>
      [] s = "transient" -> <<"t", "r", "a", "n", "s", "i", "e", "n", "t">>
      [] s = "try" -> <<"t", "r", "y">>
      [] s = "void" -> <<"v", "o", "i", "d">>
      [] s = "volatile" -> <<"v", "o", "l", "a", "t", "i", "l", "e">>
      [] s = "while" -> <<"w", "h", "i", "l", "e">>
      [] s = "true" -> <<"t", "r", "u", "e">>
      [] s = "false" -> <<"f", "a", "l", "s", "e">>
      [] s = "null" -> <<"n", "u", "l", "l">>
      [] s = "and" -> <<"a", "n", "d">>
      [] s = "as" -> <<"a", "s">>
      [] s = "def" -> <<"d", "e", "f">>
      [] s = "del" -> <<"d", "e", "l">>
      [] s = "elif" -> <<"e", "l", "i", "f">>
      [] s = "except" -> <<"e", "x", "c", "e", "p", "t">>
      [] s = "from" -> <<"f", "r", "o", "m">>
      [] s = "global" -> <<"g", "l", "o", "b", "a", "l">>
      [] s = "in" -> <<"i", "n">>
      [] s = "is" -> <<"i", "s">>
      [] s = "lambda" -> <<"l", "a", "m", "b", "d", "a">>
      [] s = "nonlocal" -> <<"n", "o", "n", "l", "o", "c", "a", "l">>
      [] s = "not" -> <<"n", "o", "t">>
      [] s = "or" -> <<"o", "r">>
      [] s = "pass" -> <<"p", "a", "s", "s">>
      [] s = "raise" -> <<"r", "a", "i", "s", "e">>
      [] s = "with" -> <<"w", "i", "t", "h">>
      [] s = "yield" -> <<"y", "i", "e", "l", "d">>
      [] s = "chan" -> <<"c", "h", "a", "n">>
      [] s = "defer" -> <<"d", "e", "f", "e", "r">>
      [] s = "fallthrough" -> <<"f", "a", "l", "l", "t", "h", "r", "o", "u", "g", "h">>
      [] s = "func" -> <<"f", "u", "n", "c">>
      [] s = "go" -> <<"g", "o">>
      [] s = "map" -> <<"m", "a", "p">>
      [] s = "range" -> <<"r", "a", "n", "g", "e">>
      [] s = "select" -> <<"s", "e", "l", "e", "c", "t">>
      [] s = "struct" -> <<"s", "t", "r", "u", "c", "t">>
      [] s = "type" -> <<"t", "y", "p", "e">>
      [] s = "var" -> <<"v", "a", "r">>
      [] s = "[invalid(regex" -> <<"[", "i", "n", "v", "a", "l", "i", "d", "(", "r", "e", "g", "e", "x">>
      [] s = "None" -> <<"N", "o", "n", "e">>
      [] s = "async" -> <<"a", "s", "y", "n", "c">>
      [] s = "await" -> <<"a", "w", "a", "i", "t">>
      [] s = "True" -> <<"T", "r", "u", "e">>
      [] s = "False" -> <<"F", "a", "l", "s", "e">>
      [] s = "orderDate" -> <<"o", "r", "d", "e", "r", "D", "a", "t", "e">>

Letters ==
    {"a", "b", "c", "d", "e", "f", "g", "h", "i", "j", "k", "l", "m",
     "n", "o", "p", "q", "r", "s", "t", "u", "v", "w", "x", "y", "z",
     "A", "B", "C", "D", "E", "F", "G", "H", "I", "J", "K", "L", "M",
     "N", "O", "P", "Q", "R", "S", "T", "U", "V", "W", "X", "Y", "Z"}

Digits == {"0", "1", "2", "3", "4", "5", "6", "7", "8", "9"}

\* VALID_IDENTIFIER_REGEX.test(s):  /^[a-zA-Z_][a-zA-Z0-9_]*$/
VALID_IDENTIFIER_REGEX(s) ==
    LET cs == Chars(s) IN
        /\ Len(cs) >= 1
        /\ cs[1] \in Letters \cup {"_"}
        /\ \A k \in 2..Len(cs) : cs[k] \in Letters \cup Digits \cup {"_"}

RESERVED_WORDS == {
    "abstract", "assert", "boolean", "break", "byte", "case", "catch",
    "char", "class", "const", "continue", "default", "do", "double", "else",
    "enum", "extends", "final", "finally", "float", "for", "goto", "if",
    "implements", "import", "instanceof", "int", "interface", "long",
    "native", "new", "package", "private", "protected", "public", "return",
    "short", "static", "strictfp", "super", "switch", "synchronized",
    "this", "throw", "throws", "transient", "try", "void", "volatile",
    "while", "true", "false", "null", "and", "as", "def", "del", "elif",
    "except", "from", "global", "in", "is", "lambda", "nonlocal", "not",
    "or", "pass", "raise", "with", "yield", "chan", "defer", "fallthrough",
    "func", "go", "map", "range", "select", "struct", "type", "var"
}

SCALAR_TYPES == <<"string", "number", "boolean", "timestamp">>
COLLECTION_TYPES == <<"list", "map", "stringSet", "numberSet">>
\* the allowed set without the collection types
ALL_FIELD_TYPES_ScalarOnly == SCALAR_TYPES
ALL_FIELD_TYPES == SCALAR_TYPES \o COLLECTION_TYPES
\* the item types with list among them
LIST_ITEM_TYPES_WithList == SCALAR_TYPES \o <<"map", "list">>
LIST_ITEM_TYPES == SCALAR_TYPES \o <<"map">>

(***************************************************************************)
(* new RegExp(pattern): TRUE when the pattern compiles, FALSE when the     *)
(* constructor throws a SyntaxError.  The scanner covers the syntax errors *)
(* of the pattern grammar that the modelled patterns can exhibit:          *)
(* unterminated character class, unmatched parenthesis, unterminated       *)
(* group, nothing to repeat, and a trailing backslash.                     *)
(***************************************************************************)
RECURSIVE RegExpScan(_, _, _, _, _, _)
RegExpScan(cs, k, inClass, depth, canRepeat, lazyOk) ==
    IF k > Len(cs) THEN ~inClass /\ depth = 0
    ELSE LET c == cs[k] IN
        IF c = "\\" THEN
            IF k = Len(cs) THEN FALSE
            ELSE RegExpScan(cs, k + 2, inClass, depth, ~inClass, FALSE)
        ELSE IF inClass THEN
            RegExpScan(cs, k + 1, c # "]", depth, c = "]", FALSE)
        ELSE IF c = "[" THEN RegExpScan(cs, k + 1, TRUE, depth, FALSE, FALSE)
        ELSE IF c = "(" THEN RegExpScan(cs, k + 1, FALSE, depth + 1, FALSE, FALSE)
        ELSE IF c = ")" THEN
            IF depth = 0 THEN FALSE
            ELSE RegExpScan(cs, k + 1, FALSE, depth - 1, TRUE, FALSE)
        ELSE IF c \in {"*", "+"} THEN
            IF ~canRepeat THEN FALSE
            ELSE RegExpScan(cs, k + 1, FALSE, depth, FALSE, TRUE)
        ELSE IF c = "?" THEN
            IF canRepeat THEN RegExpScan(cs, k + 1, FALSE, depth, FALSE, TRUE)
            ELSE IF lazyOk THEN RegExpScan(cs, k + 1, FALSE, depth, FALSE, FALSE)
            ELSE FALSE
        ELSE IF c \in {"^", "$", "|"} THEN
            RegExpScan(cs, k + 1, FALSE, depth, FALSE, FALSE)
        ELSE RegExpScan(cs, k + 1, FALSE, depth, TRUE, FALSE)

RegExpCompiles(pattern) == RegExpScan(Chars(pattern), 1, FALSE, 0, FALSE, FALSE)

(***************************************************************************)
(* Outcomes.  A thrown Error is a record naming the message template       *)
(* (rule), the field name interpolated into the message (field), the       *)
(* attribute, constraint key, nested name or override quoted in it (attr)  *)
(* and the list printed after it (info).                                   *)
(***************************************************************************)
NoErr == [kind |-> "none"]
Err(rule, field, attr, info) ==
    [kind |-> "error", rule |-> rule, field |-> field, attr |-> attr, info |-> info]
IsErr(r) == r.kind = "error"
Ok(v) == [kind |-> "ok", value |-> v]
Pending == [kind |-> "pending"]

(***************************************************************************)
(* validatePrimaryKey                                                      *)
(***************************************************************************)
\* validatePrimaryKey without the typeof test
validatePrimaryKey_NoTypeof(primaryKey) ==
    LET partitionKey == Get(primaryKey, "partitionKey") IN
        IF ~Truthy(partitionKey)
        THEN Err("PrimaryKeyShape", "", "partitionKey", <<>>)
        ELSE Ok(Obj([partitionKey |-> partitionKey,
                     sortKey |-> Get(primaryKey, "sortKey")]))

validatePrimaryKey(primaryKey) ==
    LET partitionKey == Get(primaryKey, "partitionKey") IN
        IF ~Truthy(partitionKey) \/ TypeOf(partitionKey) # "string"
        THEN Err("PrimaryKeyShape", "", "partitionKey", <<>>)
        ELSE Ok(Obj([partitionKey |-> partitionKey,
                     sortKey |-> Get(primaryKey, "sortKey")]))

(***************************************************************************)
(* validateNestedFields: the loop over the nested-field list, with its     *)
(* local set nestedNames and its local output list validated.              *)
(***************************************************************************)
\* the loop of validateNestedFields without nestedNames.add
RECURSIVE NestedLoop_NoAdd(_, _, _, _, _)
NestedLoop_NoAdd(parentFieldName, fields, k, nestedNames, validated) ==
    IF k > Len(fields) THEN Ok(Arr(validated))
    ELSE LET nf == fields[k]
             name == Get(nf, "name")
             type == Get(nf, "type")
         IN
        IF nf.t \in {"undefined", "null"}
        THEN Err("TypeError", parentFieldName, "name", <<>>)
        ELSE IF ~Truthy(name) \/ TypeOf(name) # "string"
        THEN Err("NestedNameRequired", parentFieldName, "name", <<>>)
        ELSE IF ~Truthy(type) \/ ~Includes(SCALAR_TYPES, type)
        THEN Err("NestedInvalidType", parentFieldName, name.s, SCALAR_TYPES)
        ELSE IF name.s \in nestedNames
        THEN Err("DuplicateNestedName", parentFieldName, name.s, <<>>)
        ELSE NestedLoop_NoAdd(parentFieldName, fields, k + 1, nestedNames,
                              Append(validated, Obj([name |-> name, type |-> type])))

RECURSIVE NestedLoop(_, _, _, _, _)
NestedLoop(parentFieldName, fields, k, nestedNames, validated) ==
    IF k > Len(fields) THEN Ok(Arr(validated))
    ELSE LET nf == fields[k]
             name == Get(nf, "name")
             type == Get(nf, "type")
         IN
        IF nf.t \in {"undefined", "null"}
        THEN Err("TypeError", parentFieldName, "name", <<>>)
        ELSE IF ~Truthy(name) \/ TypeOf(name) # "string"
        THEN Err("NestedNameRequired", parentFieldName, "name", <<>>)
        ELSE IF ~Truthy(type) \/ ~Includes(SCALAR_TYPES, type)
        THEN Err("NestedInvalidType", parentFieldName, name.s, SCALAR_TYPES)
        ELSE IF name.s \in nestedNames
        THEN Err("DuplicateNestedName", parentFieldName, name.s, <<>>)
        ELSE NestedLoop(parentFieldName, fields, k + 1,
                        nestedNames \cup {name.s},
                        Append(validated, Obj([name |-> name, type |-> type])))

\* validateNestedFields returning the list as given, nothing tested
validateNestedFields_Unchecked(parentFieldName, fields) == Ok(Arr(fields))

validateNestedFields(parentFieldName, fields) ==
    NestedLoop(parentFieldName, fields, 1, {}, <<>>)

(***************************************************************************)
(* validateListItems                                                       *)
(***************************************************************************)
\* validateListItems that returns items.fields as given for the other types
validateListItems_FieldsKept(fieldName, items) ==
    LET type == Get(items, "type")
        fields == Get(items, "fields")
    IN
        IF ~Truthy(type) \/ ~Includes(LIST_ITEM_TYPES, type)
        THEN Err("ItemsInvalidType", fieldName, "items", LIST_ITEM_TYPES)
        ELSE IF type.s = "map"
        THEN IF ~IsArray(fields) \/ Len(fields.a) = 0
             THEN Err("ItemsMapFieldsRequired", fieldName, "fields", <<>>)
             ELSE LET nested == validateNestedFields(fieldName, fields.a) IN
                 IF IsErr(nested) THEN nested
                 ELSE Ok(Obj([type |-> type, fields |-> nested.value]))
        ELSE Ok(Obj([type |-> type, fields |-> fields]))

validateListItems(fieldName, items) ==
    LET type == Get(items, "type")
        fields == Get(items, "fields")
    IN
        IF ~Truthy(type) \/ ~Includes(LIST_ITEM_TYPES, type)
        THEN Err("ItemsInvalidType", fieldName, "items", LIST_ITEM_TYPES)
        ELSE IF type.s = "map"
        THEN IF ~IsArray(fields) \/ Len(fields.a) = 0
             THEN Err("ItemsMapFieldsRequired", fieldName, "fields", <<>>)
             ELSE LET nested == validateNestedFields(fieldName, fields.a) IN
                 IF IsErr(nested) THEN nested
                 ELSE Ok(Obj([type |-> type, fields |-> nested.value]))
        ELSE Ok(Obj([type |-> type, fields |-> Undef]))

(***************************************************************************)
(* validateDefaultValue                                                    *)
(***************************************************************************)
\* validateDefaultValue with the timestamp case asking for a number
validateDefaultValue_TimestampNumber(defaultValue, fieldType) ==
    CASE fieldType = "string" -> TypeOf(defaultValue) = "string"
      [] fieldType = "number" -> TypeOf(defaultValue) = "number"
      [] fieldType = "boolean" -> TypeOf(defaultValue) = "boolean"
      [] fieldType = "timestamp" -> TypeOf(defaultValue) = "number"
      [] OTHER -> FALSE

validateDefaultValue(defaultValue, fieldType) ==
    CASE fieldType = "string" -> TypeOf(defaultValue) = "string"
      [] fieldType = "number" -> TypeOf(defaultValue) = "number"
      [] fieldType = "boolean" -> TypeOf(defaultValue) = "boolean"
      [] fieldType = "timestamp" -> TypeOf(defaultValue) = "string"
      [] OTHER -> FALSE

(***************************************************************************)
(* validateFieldConstraints, block by block in source order.               *)
(***************************************************************************)
\* the minLength block and the maxLength block (same code, different key)
checkLengthKey(fieldName, fieldType, constraints, key) ==
    LET v == Get(constraints, key) IN
        IF v = Undef THEN NoErr
        ELSE IF fieldType # "string"
        THEN Err("ConstraintWrongType", fieldName, key, <<"string">>)
        ELSE IF TypeOf(v) # "number" \/ v.num < 0 \/ ~IsInteger(v)
        THEN Err("NotNonNegativeInteger", fieldName, key, <<>>)
        ELSE NoErr

\* minLength <= maxLength when both are specified
checkLengthOrder(fieldName, constraints) ==
    LET lo == Get(constraints, "minLength")
        hi == Get(constraints, "maxLength")
    IN
        IF lo # Undef /\ hi # Undef /\ NumGt(lo, hi)
        THEN Err("RangeInversion", fieldName, "minLength", <<"maxLength">>)
        ELSE NoErr

\* the pattern block without the try/catch: the SyntaxError of new RegExp
\* leaves validateSchema as it is
checkPattern_NoCatch(fieldName, fieldType, constraints) ==
    LET pattern == Get(constraints, "pattern") IN
        IF pattern = Undef THEN NoErr
        ELSE IF fieldType # "string"
        THEN Err("ConstraintWrongType", fieldName, "pattern", <<"string">>)
        ELSE IF TypeOf(pattern) # "string"
        THEN Err("PatternNotString", fieldName, "pattern", <<>>)
        ELSE IF ~RegExpCompiles(pattern.s)
        THEN Err("SyntaxError", "", "", <<>>)
        ELSE NoErr

\* the pattern block, with its try/catch around new RegExp
checkPattern(fieldName, fieldType, constraints) ==
    LET pattern == Get(constraints, "pattern") IN
        IF pattern = Undef THEN NoErr
        ELSE IF fieldType # "string"
        THEN Err("ConstraintWrongType", fieldName, "pattern", <<"string">>)
        ELSE IF TypeOf(pattern) # "string"
        THEN Err("PatternNotString", fieldName, "pattern", <<>>)
        ELSE IF ~RegExpCompiles(pattern.s)
        THEN Err("InvalidPattern", fieldName, "pattern", <<>>)
        ELSE NoErr

\* the min and max blocks without the test of the field type
checkNumberKey_NoTypeTest(fieldName, fieldType, constraints, key) ==
    LET v == Get(constraints, key) IN
        IF v = Undef THEN NoErr
        ELSE IF TypeOf(v) # "number"
        THEN Err("NotANumber", fieldName, key, <<>>)
        ELSE NoErr

\* the min block and the max block (same code, different key)
checkNumberKey(fieldName, fieldType, constraints, key) ==
    LET v == Get(constraints, key) IN
        IF v = Undef THEN NoErr
        ELSE IF fieldType # "number"
        THEN Err("ConstraintWrongType", fieldName, key, <<"number">>)
        ELSE IF TypeOf(v) # "number"
        THEN Err("NotANumber", fieldName, key, <<>>)
        ELSE NoErr

\* min <= max when both are specified
checkMinMaxOrder(fieldName, constraints) ==
    LET lo == Get(constraints, "min")
        hi == Get(constraints, "max")
    IN
        IF lo # Undef /\ hi # Undef /\ NumGt(lo, hi)
        THEN Err("RangeInversion", fieldName, "min", <<"max">>)
        ELSE NoErr

validateFieldConstraints(fieldName, fieldType, constraints) ==
    LET e1 == checkLengthKey(fieldName, fieldType, constraints, "minLength")
        e2 == checkLengthKey(fieldName, fieldType, constraints, "maxLength")
        e3 == checkLengthOrder(fieldName, constraints)
        e4 == checkPattern(fieldName, fieldType, constraints)
        e5 == checkNumberKey(fieldName, fieldType, constraints, "min")
        e6 == checkNumberKey(fieldName, fieldType, constraints, "max")
        e7 == checkMinMaxOrder(fieldName, constraints)
    IN
        IF IsErr(e1) THEN e1
        ELSE IF IsErr(e2) THEN e2
        ELSE IF IsErr(e3) THEN e3
        ELSE IF IsErr(e4) THEN e4
        ELSE IF IsErr(e5) THEN e5
        ELSE IF IsErr(e6) THEN e6
        ELSE e7

(***************************************************************************)
(* validateFields: the body of the loop, check by check in source order.   *)
(* name, type are the field's name and type as strings (both have passed   *)
(* their checks when the later checks run).                                *)
(***************************************************************************)
\* checkNameOverride without the RESERVED_WORDS.has test
checkNameOverride_NoReserved(name, field) ==
    LET nameOverride == Get(field, "nameOverride") IN
        IF nameOverride # Undef /\ nameOverride # Null
        THEN IF TypeOf(nameOverride) # "string"
             THEN Err("NameOverrideNotString", name, "nameOverride", <<>>)
             ELSE IF ~VALID_IDENTIFIER_REGEX(nameOverride.s)
             THEN Err("InvalidIdentifier", name, nameOverride.s, <<>>)
             ELSE NoErr
        ELSE NoErr

\* nameOverride, if present
checkNameOverride(name, field) ==
    LET nameOverride == Get(field, "nameOverride") IN
        IF nameOverride # Undef /\ nameOverride # Null
        THEN IF TypeOf(nameOverride) # "string"
             THEN Err("NameOverrideNotString", name, "nameOverride", <<>>)
             ELSE IF ~VALID_IDENTIFIER_REGEX(nameOverride.s)
             THEN Err("InvalidIdentifier", name, nameOverride.s, <<>>)
             ELSE IF nameOverride.s \in RESERVED_WORDS
             THEN Err("ReservedWord", name, nameOverride.s, <<>>)
             ELSE NoErr
        ELSE NoErr

\* checkCollection with the enum test ahead of the default test
checkCollection_EnumFirst(name, type, field) ==
    IF Includes(COLLECTION_TYPES, Str(type))
    THEN IF Truthy(Get(field, "enum"))
         THEN Err("IllegalAttribute", name, "enum", <<type>>)
         ELSE IF Get(field, "default") # Undef
         THEN Err("IllegalAttribute", name, "default", <<type>>)
         ELSE IF Truthy(Get(field, "constraints"))
         THEN Err("IllegalAttribute", name, "constraints", <<type>>)
         ELSE NoErr
    ELSE NoErr

\* reject default, enum, constraints on collection types
checkCollection(name, type, field) ==
    IF Includes(COLLECTION_TYPES, Str(type))
    THEN IF Get(field, "default") # Undef
         THEN Err("IllegalAttribute", name, "default", <<type>>)
         ELSE IF Truthy(Get(field, "enum"))
         THEN Err("IllegalAttribute", name, "enum", <<type>>)
         ELSE IF Truthy(Get(field, "constraints"))
         THEN Err("IllegalAttribute", name, "constraints", <<type>>)
         ELSE NoErr
    ELSE NoErr

\* enum values if present
checkEnum(name, field) ==
    LET enum == Get(field, "enum") IN
        IF Truthy(enum) /\ (~IsArray(enum) \/ Len(enum.a) = 0)
        THEN Err("EnumNotNonEmptyArray", name, "enum", <<>>)
        ELSE NoErr

\* default value type matches field type
checkDefault(name, type, field) ==
    LET default == Get(field, "default") IN
        IF default # Undef /\ ~validateDefaultValue(default, type)
        THEN Err("DefaultTypeMismatch", name, "default", <<>>)
        ELSE NoErr

\* field constraints
checkConstraints(name, type, field) ==
    LET constraints == Get(field, "constraints") IN
        IF Truthy(constraints)
        THEN validateFieldConstraints(name, type, constraints)
        ELSE NoErr

\* list type: items is required; yields validatedItems
checkItems(name, type, field) ==
    LET items == Get(field, "items") IN
        IF type = "list"
        THEN IF ~Truthy(items) \/ TypeOf(items) # "object"
             THEN Err("ItemsRequired", name, "items", <<>>)
             ELSE validateListItems(name, items)
        ELSE Ok(Undef)

\* map type: fields is required; yields validatedNestedFields
checkMapFields(name, type, field) ==
    LET fields == Get(field, "fields") IN
        IF type = "map"
        THEN IF ~IsArray(fields) \/ Len(fields.a) = 0
             THEN Err("MapFieldsRequired", name, "fields", <<>>)
             ELSE validateNestedFields(name, fields.a)
        ELSE Ok(Undef)

\* field.required || false
RequiredOrFalse_Falsy(required) ==
    IF Truthy(required) THEN required ELSE Bool(FALSE)

\* field.required ?? false
RequiredOrFalse(required) ==
    IF required = Undef \/ required = Null THEN Bool(FALSE) ELSE required

\* the pushed record with empty containers in place of omitted attributes
pushedField_EmptyContainers(field, validatedItems, validatedNestedFields) ==
    LET orEmpty(v, e) == IF v = Undef THEN e ELSE v IN
    Obj([name |-> Get(field, "name"),
         nameOverride |-> Get(field, "nameOverride"),
         type |-> Get(field, "type"),
         required |-> RequiredOrFalse(Get(field, "required")),
         default |-> Get(field, "default"),
         enum |-> orEmpty(Get(field, "enum"), Arr(<<>>)),
         description |-> orEmpty(Get(field, "description"), Str("")),
         constraints |-> Get(field, "constraints"),
         annotations |-> Get(field, "annotations"),
         items |-> validatedItems,
         fields |-> validatedNestedFields])

\* the record pushed onto validatedFields
pushedField(field, validatedItems, validatedNestedFields) ==
    Obj([name |-> Get(field, "name"),
         nameOverride |-> Get(field, "nameOverride"),
         type |-> Get(field, "type"),
         required |-> RequiredOrFalse(Get(field, "required")),
         default |-> Get(field, "default"),
         enum |-> Get(field, "enum"),
         description |-> Get(field, "description"),
         constraints |-> Get(field, "constraints"),
         annotations |-> Get(field, "annotations"),
         items |-> validatedItems,
         fields |-> validatedNestedFields])

\* one iteration of the loop of validateFields: the error thrown, or the
\* record pushed onto validatedFields
validateField(field, fieldNames) ==
    LET name == Get(field, "name")
        type == Get(field, "type")
    IN
    IF field.t \in {"undefined", "null"}
    THEN Err("TypeError", "", "name", <<>>)
    ELSE IF ~Truthy(name) \/ TypeOf(name) # "string"
    THEN Err("FieldNameRequired", "", "name", <<>>)
    ELSE IF ~Truthy(type) \/ ~Includes(ALL_FIELD_TYPES, type)
    THEN Err("InvalidType", name.s, "type", ALL_FIELD_TYPES)
    ELSE IF name.s \in fieldNames
    THEN Err("DuplicateName", name.s, "name", <<>>)
    ELSE LET e1 == checkNameOverride(name.s, field)
             e2 == checkCollection(name.s, type.s, field)
             e3 == checkEnum(name.s, field)
             e4 == checkDefault(name.s, type.s, field)
             e5 == checkConstraints(name.s, type.s, field)
             validatedItems == checkItems(name.s, type.s, field)
             validatedNestedFields == checkMapFields(name.s, type.s, field)
         IN
        IF IsErr(e1) THEN e1
        ELSE IF IsErr(e2) THEN e2
        ELSE IF IsErr(e3) THEN e3
        ELSE IF IsErr(e4) THEN e4
        ELSE IF IsErr(e5) THEN e5
        ELSE IF IsErr(validatedItems) THEN validatedItems
        ELSE IF IsErr(validatedNestedFields) THEN validatedNestedFields
        ELSE Ok(pushedField(field, validatedItems.value,
                            validatedNestedFields.value))

\* fieldNames.add(field.name) forgotten
AfterNameAdded_Never(r) == FALSE

\* the error names a rule evaluated after fieldNames.add(field.name)
AfterNameAdded(r) ==
    r.kind = "ok" \/
    r.rule \notin {"TypeError", "FieldNameRequired", "InvalidType", "DuplicateName"}

(***************************************************************************)
(* validateSchema: the top-level presence checks.                          *)
(***************************************************************************)
\* the presence checks without the one of description
checkTopLevel_NoDescription(doc) ==
    IF doc.t \in {"undefined", "null"}
    THEN Err("TypeError", "", "schemaVersion", <<>>)
    ELSE IF ~Truthy(Get(doc, "schemaVersion"))
    THEN Err("MissingField", "", "schemaVersion", <<>>)
    ELSE IF ~Truthy(Get(doc, "entityName"))
    THEN Err("MissingField", "", "entityName", <<>>)
    ELSE IF ~Truthy(Get(doc, "primaryKey"))
    THEN Err("MissingField", "", "primaryKey", <<>>)
    ELSE IF ~IsArray(Get(doc, "fields")) \/ Len(Get(doc, "fields").a) = 0
    THEN Err("MissingField", "", "fields", <<>>)
    ELSE NoErr

checkTopLevel(doc) ==
    IF doc.t \in {"undefined", "null"}
    THEN Err("TypeError", "", "schemaVersion", <<>>)
    ELSE IF ~Truthy(Get(doc, "schemaVersion"))
    THEN Err("MissingField", "", "schemaVersion", <<>>)
    ELSE IF ~Truthy(Get(doc, "entityName"))
    THEN Err("MissingField", "", "entityName", <<>>)
    ELSE IF ~Truthy(Get(doc, "description"))
    THEN Err("MissingField", "", "description", <<>>)
    ELSE IF ~Truthy(Get(doc, "primaryKey"))
    THEN Err("MissingField", "", "primaryKey", <<>>)
    ELSE IF ~IsArray(Get(doc, "fields")) \/ Len(Get(doc, "fields").a) = 0
    THEN Err("MissingField", "", "fields", <<>>)
    ELSE NoErr

(***************************************************************************)
(* The documents validated.  Bounds of the model.                          *)
(***************************************************************************)
MaxFields == 3      \* longest field list of the multi-field documents
MaxNested == 2      \* longest nested-field list
MaxNum == 2         \* largest number used as a constraint value

BlankField ==
    [name |-> Undef, type |-> Undef, nameOverride |-> Undef, required |-> Undef,
     default |-> Undef, enum |-> Undef, description |-> Undef,
     constraints |-> Undef, annotations |-> Undef, items |-> Undef,
     fields |-> Undef]

BlankConstraints ==
    [minLength |-> Undef, maxLength |-> Undef, pattern |-> Undef,
     min |-> Undef, max |-> Undef]

\* a field with only name and type
Fld(n, ty) == Obj([BlankField EXCEPT !.name = Str(n), !.type = Str(ty)])
\* a nested field
Nf(n, ty) == Obj([name |-> Str(n), type |-> Str(ty)])
\* a document
Doc(sv, en, de, pk, fs) ==
    Obj([schemaVersion |-> sv, entityName |-> en, description |-> de,
         primaryKey |-> pk, fields |-> fs])
\* a document with well-formed top-level keys and the given field list
DocOf(fs) ==
    Doc(Num(1), Str("User"), Str("d"),
        Obj([partitionKey |-> Str("userId"), sortKey |-> Undef]), Arr(fs))

\* (A) variations of the top-level keys
PrimaryKeyValues ==
    {Undef, Null, Str("userId"), Num(0)} \cup
    {Obj([partitionKey |-> p, sortKey |-> k]) :
        p \in {Undef, Null, Str(""), Str("userId"), Num(1), Bool(TRUE)},
        k \in {Undef, Str("ts"), Num(1)}}

FieldsValues ==
    {Undef, Null, Str("userId"), Obj([length |-> Num(1)]), Arr(<<>>),
     Arr(<<Fld("userId", "string")>>), Arr(<<Fld("userId", "uuid")>>)}

TopDocs(d) ==
    \E sv \in {Undef, Str("v1"), Str(""), Num(1), Num(0)},
       en \in {Undef, Str("User"), Str("")},
       de \in {Undef, Str("d")},
       pk \in PrimaryKeyValues,
       fs \in FieldsValues :
        d = Doc(sv, en, de, pk, fs)

\* (B) one field, its attributes varied together
NameOverrideValues == {Undef, Null, Str("userId"), Str("class"), Str("a-b"), Num(1)}
DefaultValues == {Undef, Null, Str("x"), Num(1)}
EnumValues == {Undef, Null, Str(""), Str("x"), Arr(<<>>), Arr(<<Str("x")>>)}
ConstraintsValues ==
    {Undef, Null, Bool(FALSE), Obj(BlankConstraints),
     Obj([BlankConstraints EXCEPT !.minLength = Num(1)]),
     Obj([BlankConstraints EXCEPT !.min = Num(1)])}
ItemsValues ==
    {Undef, Obj([type |-> Str("string")]), Obj([type |-> Str("list")])}
NestedValues == {Undef, Arr(<<>>), Arr(<<Nf("street", "string")>>)}

OneFieldDocs(d) ==
    \E n \in {Str("a"), Undef},
       ty \in {Undef, Str("string"), Str("number"), Str("list"), Str("map"),
               Str("stringSet"), Str("uuid")},
       no \in NameOverrideValues, df \in DefaultValues, en \in EnumValues,
       cs \in ConstraintsValues, it \in ItemsValues, nf \in NestedValues :
        /\ ty # Str("list") => it = Undef
        /\ ty # Str("map") => nf = Undef
        /\ d = DocOf(<<Obj([BlankField EXCEPT !.name = n, !.type = ty,
                              !.nameOverride = no, !.default = df, !.enum = en,
                              !.constraints = cs, !.items = it, !.fields = nf])>>)

\* (C) several fields: repeated names, a bad field anywhere in the list
SampleItems == Obj([type |-> Str("string"), fields |-> Undef])
SampleNested == Arr(<<Nf("street", "string")>>)

MultiFields ==
    {Obj([BlankField EXCEPT !.name = Str(n), !.type = ty,
            !.items = SampleItems, !.fields = SampleNested]) :
        n \in {"a", "b"},
        ty \in {Str("uuid"), Str("string"), Str("list")}} \cup
    {Obj([BlankField EXCEPT !.name = n, !.type = Str("string")]) :
        n \in {Undef, Num(1)}} \cup
    {Obj([BlankField EXCEPT !.name = Str("a"), !.type = Str("string"),
            !.nameOverride = Str("class")]),
     Obj([BlankField EXCEPT !.name = Str("b"), !.type = Str("stringSet"),
            !.default = Str("x")]),
     Obj([BlankField EXCEPT !.name = Str("b"), !.type = Str("number"),
            !.required = Bool(TRUE), !.default = Num(1)])}

MultiFieldDocs(d) ==
    \E n \in 1..MaxFields : \E fs \in [1..n -> MultiFields] : d = DocOf(fs)

\* (F) every value of type, on a field after a well-formed one, with every
\* value of name
TypeValues ==
    {Undef, Null, Str(""), Str("uuid"), Str("List"), Num(1), Bool(TRUE),
     Arr(<<Str("string")>>)} \cup
    {Str(ALL_FIELD_TYPES[k]) : k \in 1..Len(ALL_FIELD_TYPES)}

TypeDocs(d) ==
    \E n \in {Undef, Null, Str(""), Str("x"), Str("id"), Num(1)}, ty \in TypeValues :
        d = DocOf(<<Fld("id", "string"),
                    Obj([BlankField EXCEPT !.name = n, !.type = ty,
                           !.items = SampleItems, !.fields = SampleNested])>>)

\* (D) constraints objects on scalar and collection fields
LengthValues ==
    {Undef, Null, Str("1"), Frac(5, 2), Num(-1)} \cup {Num(k) : k \in 0..MaxNum}
PatternValues ==
    {Undef, Null, Num(1), Str(""), Str("[a-z]+"), Str("^\\d+$"), Str("(a)*"),
     Str("[invalid(regex"), Str("[a-z"), Str("(a"), Str("a)"), Str("*a"),
     Str("a\\")}
NumberValues ==
    {Undef, Null, Str("1"), Frac(1, 2)} \cup {Num(k) : k \in -1..MaxNum}
ConstrainedTypes == {"string", "number", "boolean", "timestamp", "list"}

ConstraintDocs(d) ==
    \E ty \in ConstrainedTypes, lo \in LengthValues \cup NumberValues,
       hi \in LengthValues, pt \in PatternValues,
       mn \in NumberValues, mx \in NumberValues :
        /\ \/ lo \in LengthValues /\ mn \in {Undef, Num(1)} /\ mx = Undef
           \/ lo \in {Undef, Num(1)} /\ hi = Undef /\ pt \in {Undef, Str("[a-z]+")}
        /\ d = DocOf(<<Fld("id", "string"),
                       Obj([BlankField EXCEPT !.name = Str("code"),
                              !.type = Str(ty), !.items = SampleItems,
                              !.constraints =
                                  Obj([minLength |-> lo, maxLength |-> hi,
                                       pattern |-> pt, min |-> mn,
                                       max |-> mx])])>>)

\* (E) nested-field lists in a map field and in the items of a list field,
\* next to a top-level field
NestedFieldValues ==
    {Nf("a", "string"), Nf("b", "number"), Nf("a", "timestamp"),
     Nf("b", "list"), Nf("c", "uuid"),
     Obj([name |-> Undef, type |-> Str("string")])}

\* the entries of the nested-field list of the items of the list field
NestedItemFieldValues == {Nf("a", "string"), Nf("a", "timestamp"), Nf("b", "list")}

NestedDocs(d) ==
    \E n1 \in 0..MaxNested, n2 \in 0..MaxNested :
        \E l1 \in [1..n1 -> NestedFieldValues],
           l2 \in [1..n2 -> NestedItemFieldValues] :
            d = DocOf(<<Fld("a", "string"),
                        Obj([BlankField EXCEPT !.name = Str("m"),
                               !.type = Str("map"), !.fields = Arr(l1)]),
                        Obj([BlankField EXCEPT !.name = Str("l"),
                               !.type = Str("list"),
                               !.items = Obj([type |-> Str("map"),
                                              fields |-> Arr(l2)])])>>)

\* (G) one scalar or set field: default, required and the attributes that
\* are copied to the output
ScalarDefaultValues ==
    {Undef, Null, Str(""), Str("x"), Str("not-a-date"), Num(0), Num(1),
     Bool(TRUE), Bool(FALSE), Arr(<<>>), Obj([value |-> Num(1)])}
RequiredValues == {Undef, Null, Bool(TRUE), Bool(FALSE), Num(0), Str("yes")}
AnnotationsValues == {Undef, Obj([customField |-> Str("customValue")])}

AttributeDocs(d) ==
    \E ty \in {"string", "number", "boolean", "timestamp", "stringSet"},
       df \in ScalarDefaultValues, rq \in RequiredValues,
       en \in {Undef, Arr(<<Str("x")>>)},
       de \in {Undef, Str(""), Str("text")}, an \in AnnotationsValues :
        d = DocOf(<<Obj([BlankField EXCEPT !.name = Str("flag"),
                           !.type = Str(ty), !.default = df, !.required = rq,
                           !.enum = en, !.description = de,
                           !.annotations = an])>>)

\* (H) every reserved word, keywords outside the set, identifiers and
\* non-identifiers as nameOverride of a field after a well-formed one
NameOverrideWords ==
    RESERVED_WORDS \cup
    {"None", "True", "False", "async", "await", "Class", "orderDate", "userId",
     "user_id", "_x", "x1", "1x", "a-b", ""}

NameOverrideDocs(d) ==
    \E ty \in {"string", "number", "stringSet"},
       no \in {Undef, Null, Num(0), Num(1), Bool(FALSE), Arr(<<Str("x1")>>),
               Obj([name |-> Str("x1")])} \cup {Str(w) : w \in NameOverrideWords} :
        d = DocOf(<<Fld("id", "string"),
                    Obj([BlankField EXCEPT !.name = Str("code"),
                           !.type = Str(ty), !.nameOverride = no])>>)

\* (I) a list or map field after a well-formed one: every shape of items,
\* of items.type and of the nested-field list
ListItemTypeValues ==
    {Undef, Null, Str(""), Str("uuid"), Num(1), Arr(<<Str("string")>>)} \cup
    {Str(ALL_FIELD_TYPES[k]) : k \in 1..Len(ALL_FIELD_TYPES)}
NestedListValues ==
    {Undef, Null, Str("street"), Arr(<<>>), Arr(<<Nf("street", "string")>>),
     Arr(<<Nf("street", "string"), Nf("zip", "number")>>),
     Arr(<<Nf("street", "boolean"), Nf("tags", "list")>>),
     Arr(<<Nf("geo", "map")>>), Arr(<<Nf("tags", "stringSet")>>),
     Arr(<<Nf("ids", "numberSet")>>), Arr(<<Nf("", "string")>>),
     Arr(<<Obj([name |-> Num(1), type |-> Str("string")])>>),
     Arr(<<Obj([name |-> Str("street"), type |-> Undef])>>),
     Arr(<<Obj([name |-> Str("street"), type |-> Str("string"),
                required |-> Bool(TRUE), description |-> Str("d")])>>)}

CollectionDocs(d) ==
    \E ty \in {"list", "map", "string"}, nf \in NestedListValues,
       inf \in NestedListValues, rq \in {Undef, Bool(TRUE)} :
        \E it \in {Undef, Null, Str("string"), Num(1), Bool(TRUE), Arr(<<>>)} \cup
                  {Obj([type |-> t, fields |-> inf]) : t \in ListItemTypeValues} :
            /\ it.t # "object" => inf = Undef
            /\ ty = "list" => nf \in {Undef, SampleNested}
            /\ ty # "list" => it \in {Undef, SampleItems}
            /\ d = DocOf(<<Fld("id", "string"),
                           Obj([BlankField EXCEPT !.name = Str("addr"),
                                  !.type = Str(ty), !.required = rq,
                                  !.items = it, !.fields = nf])>>)

Docs(d) ==
    \/ AttributeDocs(d)
    \/ CollectionDocs(d)
    \/ NameOverrideDocs(d)
    \/ TopDocs(d)
    \/ OneFieldDocs(d)
    \/ MultiFieldDocs(d)
    \/ ConstraintDocs(d)
    \/ NestedDocs(d)
    \/ TypeDocs(d)

(***************************************************************************)
(* The state machine: one call of validateSchema on a document.            *)
(*   schema           the argument                                        *)
(*   pc               "start": before the presence checks;                 *)
(*                    "fields": in the loop of validateFields;             *)
(*                    "done": returned or thrown                           *)
(*   primaryKey       the value returned by validatePrimaryKey             *)
(*   i                index of the field the loop is at                    *)
(*   fieldNames       the local Set of validateFields                      *)
(*   validatedFields  the local output list of validateFields              *)
(*   result           the value returned or the error thrown               *)
(*   calls            number of calls made so far, this one included       *)
(*   observed         history: the pairs <<argument, outcome>> of the      *)
(*                    calls that are over                                  *)
(* and the state of the schema loader (scripts/utils/schema-loader.mjs):   *)
(*   compiledSchema   the cache slot: NoInstance or the compiled instance  *)
(*   compileCount     number of compilations made so far                   *)
(*   trace            history: the loader operations made so far, each     *)
(*                    with its argument and its outcome                    *)
(***************************************************************************)
VARIABLES schema, pc, primaryKey, i, fieldNames, validatedFields, result,
          calls, observed, compiledSchema, compileCount, trace

vars == <<schema, pc, primaryKey, i, fieldNames, validatedFields, result,
          calls, observed, compiledSchema, compileCount, trace>>

\* the state of the loader, which validateSchema has no reference to
loaderVars == <<compiledSchema, compileCount, trace>>

\* the state of a call of validateSchema and of its caller
callVars == <<schema, pc, primaryKey, i, fieldNames, validatedFields, result,
              calls, observed>>

\* the empty cache slot
NoInstance == [t |-> "null"]

\* the loader before any load
LoaderInit ==
    /\ compiledSchema = NoInstance
    /\ compileCount = 0
    /\ trace = <<>>

Init ==
    /\ Docs(schema)
    /\ pc = "start"
    /\ primaryKey = Undef
    /\ i = 1
    /\ fieldNames = {}
    /\ validatedFields = <<>>
    /\ result = Pending
    /\ calls = 1
    /\ observed = {}
    /\ LoaderInit

\* the throw of an error out of validateSchema
Throw(e) ==
    /\ result' = e
    /\ pc' = "done"
    /\ observed' = observed \cup {<<schema, e>>}
    /\ UNCHANGED calls

\* validateSchema with a look-up of partitionKey among the field names added
CheckTopLevel_CrossChecked ==
    /\ pc = "start"
    /\ LET e == checkTopLevel(schema) IN
        IF IsErr(e)
        THEN Throw(e) /\ UNCHANGED <<primaryKey>>
        ELSE LET pk == validatePrimaryKey(Get(schema, "primaryKey"))
                 fs == Get(schema, "fields").a
             IN
            IF IsErr(pk)
            THEN Throw(pk) /\ UNCHANGED <<primaryKey>>
            ELSE IF \A k \in 1..Len(fs) :
                        Get(fs[k], "name") # Get(pk.value, "partitionKey")
            THEN Throw(Err("UnknownPartitionKey", "", "partitionKey", ""))
                 /\ UNCHANGED <<primaryKey>>
            ELSE /\ primaryKey' = pk.value
                 /\ pc' = "fields"
                 /\ UNCHANGED <<result, calls, observed>>
    /\ UNCHANGED <<schema, i, fieldNames, validatedFields>>
    /\ UNCHANGED loaderVars

\* validateSchema up to the call of validateFields: presence checks, then
\* validatePrimaryKey
CheckTopLevel ==
    /\ pc = "start"
    /\ LET e == checkTopLevel(schema) IN
        IF IsErr(e)
        THEN Throw(e) /\ UNCHANGED <<primaryKey>>
        ELSE LET pk == validatePrimaryKey(Get(schema, "primaryKey")) IN
            IF IsErr(pk)
            THEN Throw(pk) /\ UNCHANGED <<primaryKey>>
            ELSE /\ primaryKey' = pk.value
                 /\ pc' = "fields"
                 /\ UNCHANGED <<result, calls, observed>>
    /\ UNCHANGED <<schema, i, fieldNames, validatedFields>>
    /\ UNCHANGED loaderVars

\* one iteration of the loop of validateFields
ValidateField ==
    /\ pc = "fields"
    /\ i <= Len(Get(schema, "fields").a)
    /\ LET field == Get(schema, "fields").a[i]
           r == validateField(field, fieldNames)
       IN
        /\ fieldNames' = IF AfterNameAdded(r)
                         THEN fieldNames \cup {Get(field, "name").s}
                         ELSE fieldNames
        /\ IF IsErr(r)
           THEN Throw(r) /\ UNCHANGED <<i, validatedFields>>
           ELSE /\ validatedFields' = Append(validatedFields, r.value)
                /\ i' = i + 1
                /\ UNCHANGED <<pc, result, calls, observed>>
    /\ UNCHANGED <<schema, primaryKey>>
    /\ UNCHANGED loaderVars

\* the return of validateSchema with description left out of the output
Return_DescriptionDropped ==
    /\ pc = "fields"
    /\ i > Len(Get(schema, "fields").a)
    /\ result' = Ok(Obj([schemaVersion |-> Get(schema, "schemaVersion"),
                         entityName |-> Get(schema, "entityName"),
                         description |-> Undef,
                         primaryKey |-> primaryKey,
                         fields |-> Arr(validatedFields)]))
    /\ pc' = "done"
    /\ observed' = observed \cup {<<schema, result'>>}
    /\ UNCHANGED <<schema, primaryKey, i, fieldNames, validatedFields, calls>>
    /\ UNCHANGED loaderVars

\* the end of the loop and the return of validateSchema
Return ==
    /\ pc = "fields"
    /\ i > Len(Get(schema, "fields").a)
    /\ result' = Ok(Obj([schemaVersion |-> Get(schema, "schemaVersion"),
                         entityName |-> Get(schema, "entityName"),
                         description |-> Get(schema, "description"),
                         primaryKey |-> primaryKey,
                         fields |-> Arr(validatedFields)]))
    /\ pc' = "done"
    /\ observed' = observed \cup {<<schema, result'>>}
    /\ UNCHANGED <<schema, primaryKey, i, fieldNames, validatedFields, calls>>
    /\ UNCHANGED loaderVars

Next == CheckTopLevel \/ ValidateField \/ Return

Spec == Init /\ [][Next]_vars

(***************************************************************************)
(* Repeated calls of validateSchema by one caller: when a call is over the *)
(* caller validates another document, or the same one again.  The locals   *)
(* of validateFields are created anew by each call.                        *)
(***************************************************************************)
MaxCalls == 3       \* number of calls made one after the other

\* the Set of the previous call kept for the next one
newFieldNames_Reused(previous) == previous

\* const fieldNames = new Set<string>()
newFieldNames(previous) == {}

\* valid and invalid documents that share field names
CallDocs ==
    {DocOf(<<Fld("a", "string"), Fld("b", "number")>>),
     DocOf(<<Fld("b", "timestamp")>>),
     DocOf(<<Fld("a", "string"), Fld("a", "number")>>),
     DocOf(<<Fld("b", "string"),
             Obj([BlankField EXCEPT !.name = Str("a"), !.type = Str("string"),
                    !.nameOverride = Str("class")])>>),
     DocOf(<<Fld("a", "boolean"),
             Obj([BlankField EXCEPT !.name = Str("m"), !.type = Str("map"),
                    !.fields = Arr(<<Nf("a", "string"), Nf("a", "number")>>)])>>),
     DocOf(<<Obj([BlankField EXCEPT !.name = Str("m"), !.type = Str("map"),
                    !.fields = Arr(<<Nf("a", "string"), Nf("b", "number")>>)])>>),
     DocOf(<<Obj([BlankField EXCEPT !.name = Str("a"), !.type = Str("string"),
                    !.constraints =
                        Obj([BlankConstraints EXCEPT
                               !.pattern = Str("[invalid(regex")])])>>),
     Doc(Num(1), Str("User"), Undef,
         Obj([partitionKey |-> Str("userId"), sortKey |-> Undef]),
         Arr(<<Fld("a", "string")>>)),
     Doc(Num(1), Str("User"), Str("d"), Obj([partitionKey |-> Num(1)]),
         Arr(<<Fld("a", "string")>>))}

InitCalls ==
    /\ schema \in CallDocs
    /\ pc = "start"
    /\ primaryKey = Undef
    /\ i = 1
    /\ fieldNames = {}
    /\ validatedFields = <<>>
    /\ result = Pending
    /\ calls = 1
    /\ observed = {}
    /\ LoaderInit

\* the caller calls validateSchema again
NextCall ==
    /\ pc = "done"
    /\ calls < MaxCalls
    /\ schema' \in CallDocs
    /\ pc' = "start"
    /\ primaryKey' = Undef
    /\ i' = 1
    /\ fieldNames' = newFieldNames(fieldNames)
    /\ validatedFields' = <<>>
    /\ result' = Pending
    /\ calls' = calls + 1
    /\ UNCHANGED observed
    /\ UNCHANGED loaderVars

NextCalls == CheckTopLevel \/ ValidateField \/ Return \/ NextCall

SpecCalls == InitCalls /\ [][NextCalls]_vars

(***************************************************************************)
(* Repeated calls on documents that are variants of one another: the same  *)
(* entity with another version marker, or with other key names.            *)
(***************************************************************************)
\* version markers: numbers and strings, the falsy ones included
VersionValues == {Num(1), Num(0), Str("v1"), Str("")}

\* key names that are, and that are not, names of the fields a and b
KeyNameValues ==
    {Obj([partitionKey |-> Str("userId"), sortKey |-> Undef]),
     Obj([partitionKey |-> Str("a"), sortKey |-> Undef]),
     Obj([partitionKey |-> Str("a"), sortKey |-> Str("b")]),
     Obj([partitionKey |-> Str("userId"), sortKey |-> Str("ts")])}

\* a valid field list and one with a repeated name
VariantFieldLists ==
    {<<Fld("a", "string"), Fld("b", "number")>>,
     <<Fld("a", "string"), Fld("a", "number")>>}

VariantDocs ==
    {Doc(sv, Str("User"), Str("d"),
         Obj([partitionKey |-> Str("userId"), sortKey |-> Undef]), Arr(fs)) :
        sv \in VersionValues, fs \in VariantFieldLists}
    \cup
    {Doc(Num(1), Str("User"), Str("d"), pk, Arr(fs)) :
        pk \in KeyNameValues, fs \in VariantFieldLists}

InitVariants ==
    /\ schema \in VariantDocs
    /\ pc = "start"
    /\ primaryKey = Undef
    /\ i = 1
    /\ fieldNames = {}
    /\ validatedFields = <<>>
    /\ result = Pending
    /\ calls = 1
    /\ observed = {}
    /\ LoaderInit

\* the caller calls validateSchema on a variant
NextVariantCall ==
    /\ pc = "done"
    /\ calls < MaxCalls
    /\ schema' \in VariantDocs
    /\ pc' = "start"
    /\ primaryKey' = Undef
    /\ i' = 1
    /\ fieldNames' = newFieldNames(fieldNames)
    /\ validatedFields' = <<>>
    /\ result' = Pending
    /\ calls' = calls + 1
    /\ UNCHANGED observed
    /\ UNCHANGED loaderVars

NextVariants == CheckTopLevel \/ ValidateField \/ Return \/ NextVariantCall

SpecVariants == InitVariants /\ [][NextVariants]_vars

(***************************************************************************)
(* validateSchema called on its own output: the caller passes the value    *)
(* returned by the call that is over to a further call.                    *)
(***************************************************************************)
Revalidate ==
    /\ pc = "done"
    /\ result.kind = "ok"
    /\ calls < MaxCalls
    /\ schema' = result.value
    /\ pc' = "start"
    /\ primaryKey' = Undef
    /\ i' = 1
    /\ fieldNames' = newFieldNames(fieldNames)
    /\ validatedFields' = <<>>
    /\ result' = Pending
    /\ calls' = calls + 1
    /\ UNCHANGED observed
    /\ UNCHANGED loaderVars

NextAgain == CheckTopLevel \/ ValidateField \/ Return \/ Revalidate

SpecAgain == Init /\ [][NextAgain]_vars

(***************************************************************************)
(* validateSchema as one function of its argument: the value one call      *)
(* returns, or the error it throws, when nothing else runs.                *)
(***************************************************************************)
\* validateFields(fields): the loop from field k on, names being the local
\* Set and out the local output list
RECURSIVE validateFields(_, _, _, _)
validateFields(fields, k, names, out) ==
    IF k > Len(fields) THEN Ok(Arr(out))
    ELSE LET r == validateField(fields[k], names) IN
         IF IsErr(r) THEN r
         ELSE validateFields(fields, k + 1,
                             names \cup {Get(fields[k], "name").s},
                             Append(out, r.value))

\* validateSchema(doc)
validateSchema(doc) ==
    LET e == checkTopLevel(doc) IN
    IF IsErr(e) THEN e
    ELSE LET pk == validatePrimaryKey(Get(doc, "primaryKey")) IN
    IF IsErr(pk) THEN pk
    ELSE LET fs == validateFields(Get(doc, "fields").a, 1, {}, <<>>) IN
    IF IsErr(fs) THEN fs
    ELSE Ok(Obj([schemaVersion |-> Get(doc, "schemaVersion"),
                 entityName |-> Get(doc, "entityName"),
                 description |-> Get(doc, "description"),
                 primaryKey |-> pk.value,
                 fields |-> fs.value]))

(***************************************************************************)
(* The schema loader (scripts/utils/schema-loader.mjs): loadSchema,        *)
(* resetSchema and getSchemaInfo over one module-level cache slot.         *)
(*   loadSchema(path) returns the cached instance when the slot holds      *)
(*   one; otherwise it reads and compiles the rule-set at path, stores     *)
(*   the instance in the slot and returns it, or fails with a load error   *)
(*   that names path and wraps the cause.                                  *)
(***************************************************************************)
MaxOperations == 5  \* calls of validateSchema and of the loader, together

DefaultLocation == "schema/bprint.schema.json"

\* the locations passed to loadSchema
Locations ==
    {DefaultLocation, "alt/schema.json", "nonexistent/schema.json",
     "broken/schema.json"}

\* what reading and compiling the rule-set at a location ends with
ReadOutcome(path) ==
    CASE path = "nonexistent/schema.json" -> "ENOENT"
      [] path = "broken/schema.json" -> "SyntaxError"
      [] OTHER -> "compiled"

\* outcomes of the loader operations
LoadOk(instance) ==
    [kind |-> "ok", instance |-> instance, message |-> "", location |-> "",
     cause |-> ""]
LoadError(path, cause) ==
    [kind |-> "error", instance |-> NoInstance,
     message |-> "Failed to load schema", location |-> path, cause |-> cause]
InfoOk(instance) ==
    [kind |-> "ok", instance |-> instance, message |-> "", location |-> "",
     cause |-> ""]
InfoError ==
    [kind |-> "error", instance |-> NoInstance, message |-> "Schema not loaded",
     location |-> "", cause |-> ""]
Cleared ==
    [kind |-> "none", instance |-> NoInstance, message |-> "", location |-> "",
     cause |-> ""]

\* the instance the n-th compilation makes of the rule-set at path
Compiled(n, path) == [t |-> "function", id |-> n, location |-> path]

\* loadSchema that compiles on every call
loadSchema_Recompiled(slot, count, path) ==
    IF ReadOutcome(path) = "compiled"
    THEN [slot |-> Compiled(count + 1, path), count |-> count + 1,
          outcome |-> LoadOk(Compiled(count + 1, path))]
    ELSE [slot |-> slot, count |-> count,
          outcome |-> LoadError(path, ReadOutcome(path))]

\* loadSchema(path): the slot and the count after the call, and its outcome
loadSchema(slot, count, path) ==
    IF slot # NoInstance
    THEN [slot |-> slot, count |-> count, outcome |-> LoadOk(slot)]
    ELSE IF ReadOutcome(path) = "compiled"
    THEN [slot |-> Compiled(count + 1, path), count |-> count + 1,
          outcome |-> LoadOk(Compiled(count + 1, path))]
    ELSE [slot |-> slot, count |-> count,
          outcome |-> LoadError(path, ReadOutcome(path))]

\* resetSchema that leaves the slot as it is
resetSchema_Kept(slot) == slot

\* resetSchema(): the slot after the call
resetSchema(slot) == NoInstance

\* getSchemaInfo(): its outcome
getSchemaInfo(slot) ==
    IF slot = NoInstance THEN InfoError ELSE InfoOk(slot)

\* the operations made so far by the callers
Operations == Len(trace) + calls

LoadSchema ==
    /\ Operations < MaxOperations
    /\ \E path \in Locations :
        LET r == loadSchema(compiledSchema, compileCount, path) IN
        /\ compiledSchema' = r.slot
        /\ compileCount' = r.count
        /\ trace' = Append(trace, [op |-> "load", location |-> path,
                                    outcome |-> r.outcome])
    /\ UNCHANGED callVars

ResetSchema ==
    /\ Operations < MaxOperations
    /\ compiledSchema' = resetSchema(compiledSchema)
    /\ trace' = Append(trace, [op |-> "reset", location |-> "",
                                outcome |-> Cleared])
    /\ UNCHANGED <<compileCount, callVars>>

GetSchemaInfo ==
    /\ Operations < MaxOperations
    /\ trace' = Append(trace, [op |-> "info", location |-> "",
                                outcome |-> getSchemaInfo(compiledSchema)])
    /\ UNCHANGED <<compiledSchema, compileCount, callVars>>

(***************************************************************************)
(* Calls of validateSchema interleaved with operations of the loader.      *)
(***************************************************************************)
\* documents that share the names a and b, at the top level and nested
SharedDocs ==
    {DocOf(<<Fld("a", "string"), Fld("b", "number")>>),
     DocOf(<<Fld("b", "timestamp"),
             Obj([BlankField EXCEPT !.name = Str("m"), !.type = Str("map"),
                    !.fields = Arr(<<Nf("a", "string"), Nf("b", "number")>>)])>>),
     DocOf(<<Fld("a", "string"), Fld("a", "number")>>)}

InitShared ==
    /\ schema \in SharedDocs
    /\ pc = "start"
    /\ primaryKey = Undef
    /\ i = 1
    /\ fieldNames = {}
    /\ validatedFields = <<>>
    /\ result = Pending
    /\ calls = 1
    /\ observed = {}
    /\ LoaderInit

\* a further call that finds the Set of names of the call before it
NextSharedCall_NamesKept ==
    /\ pc = "done"
    /\ calls < MaxCalls
    /\ Operations < MaxOperations
    /\ schema' \in SharedDocs
    /\ pc' = "start"
    /\ primaryKey' = Undef
    /\ i' = 1
    /\ fieldNames' = fieldNames
    /\ validatedFields' = <<>>
    /\ result' = Pending
    /\ calls' = calls + 1
    /\ UNCHANGED observed
    /\ UNCHANGED loaderVars

\* a caller calls validateSchema again
NextSharedCall ==
    /\ pc = "done"
    /\ calls < MaxCalls
    /\ Operations < MaxOperations
    /\ schema' \in SharedDocs
    /\ pc' = "start"
    /\ primaryKey' = Undef
    /\ i' = 1
    /\ fieldNames' = newFieldNames(fieldNames)
    /\ validatedFields' = <<>>
    /\ result' = Pending
    /\ calls' = calls + 1
    /\ UNCHANGED observed
    /\ UNCHANGED loaderVars

NextShared ==
    \/ CheckTopLevel \/ ValidateField \/ Return \/ NextSharedCall
    \/ LoadSchema \/ ResetSchema \/ GetSchemaInfo

SpecShared == InitShared /\ [][NextShared]_vars

(***************************************************************************)
(* countEntitiesAndFields (scripts/utils/validation-helpers.mjs)           *)
(***************************************************************************)
MaxEntities == 2    \* longest entities array

\* v.length
LengthOf(v) ==
    CASE v.t = "array" -> Num(Len(v.a))
      [] OTHER -> Get(v, "length")

\* v?.length
OptionalLength(v) ==
    IF v.t \in {"undefined", "null"} THEN Undef ELSE LengthOf(v)

\* v || 0 for a length v
OrZero(v) == IF Truthy(v) THEN v.num ELSE 0

\* e.fields?.length || 0 for an entity that is an object
FieldsOf(e) == OrZero(OptionalLength(Get(e, "fields")))

\* entities.reduce((sum, e) => sum + (e.fields?.length || 0), 0)
RECURSIVE Reduce(_, _, _)
Reduce(entities, k, sum) ==
    IF k > Len(entities) THEN sum
    ELSE Reduce(entities, k + 1, sum + FieldsOf(entities[k]))

\* the call throws a TypeError: reduce of a value that has none, or fields
\* of an entity that is null or undefined
ThrowsTypeError(entities) ==
    /\ entities.t \notin {"undefined", "null"}
    /\ \/ entities.t # "array"
       \/ \E k \in 1..Len(entities.a) :
            entities.a[k].t \in {"undefined", "null"}

\* countEntitiesAndFields with e.fields.length in place of e.fields?.length
countEntitiesAndFields_NoOptionalChain(json) ==
    LET entities == Get(json, "entities") IN
    IF ThrowsTypeError(entities)
       \/ (entities.t = "array" /\ \E k \in 1..Len(entities.a) :
                Get(entities.a[k], "fields").t \in {"undefined", "null"})
    THEN Err("TypeError", "", "", "")
    ELSE Ok(Obj([entityCount |-> Num(OrZero(OptionalLength(entities))),
                 fieldCount |->
                    Num(IF entities.t \in {"undefined", "null"} THEN 0
                        ELSE Reduce(entities.a, 1, 0))]))

\* countEntitiesAndFields(json)
countEntitiesAndFields(json) ==
    LET entities == Get(json, "entities") IN
    IF ThrowsTypeError(entities)
    THEN Err("TypeError", "", "", "")
    ELSE Ok(Obj([entityCount |-> Num(OrZero(OptionalLength(entities))),
                 fieldCount |->
                    Num(IF entities.t \in {"undefined", "null"} THEN 0
                        ELSE Reduce(entities.a, 1, 0))]))

\* a field list of length k
FieldList(k) == Arr([j \in 1..k |-> Fld("f", "string")])

\* entities of the multi-entity format, with and without a field list
EntityValues ==
    {Null, Obj([name |-> Str("E")]),
     Obj([name |-> Str("E"), fields |-> Null])}
    \cup {Obj([name |-> Str("E"), fields |-> FieldList(k)]) : k \in 0..MaxFields}

EntitiesValues ==
    {Undef, Null, Obj([name |-> Str("E")])}
    \cup {Arr(es) : es \in UNION {[1..n -> EntityValues] : n \in 0..MaxEntities}}

\* the documents counted: the single-entity format (entityName and fields at
\* the top level), the multi-entity format and documents with neither
CountDocs ==
    {DocOf(FieldList(k).a) : k \in 0..MaxFields}
    \cup {Obj([schemaVersion |-> Num(1), entityName |-> Str("test"),
                description |-> Str("d")])}
    \cup {Obj([schemaVersion |-> Num(1), namespace |-> Str("n"),
                entities |-> es]) : es \in EntitiesValues}

InitCount ==
    /\ schema \in CountDocs
    /\ pc = "start"
    /\ primaryKey = Undef
    /\ i = 1
    /\ fieldNames = {}
    /\ validatedFields = <<>>
    /\ result = Pending
    /\ calls = 1
    /\ observed = {}
    /\ LoaderInit

\* the call of countEntitiesAndFields on the document
CountEntitiesAndFields ==
    /\ pc = "start"
    /\ result' = countEntitiesAndFields(schema)
    /\ pc' = "done"
    /\ UNCHANGED <<schema, primaryKey, i, fieldNames, validatedFields, calls,
                   observed>>
    /\ UNCHANGED loaderVars

NextCount == CountEntitiesAndFields

SpecCount == InitCount /\ [][NextCount]_vars

TypeOK ==
    /\ pc \in {"start", "fields", "done"}
    /\ result.kind \in {"pending", "ok", "error"}
    /\ (pc = "done") = (result.kind # "pending")
    /\ i \in 1..(MaxFields + 2)

(***************************************************************************)
(* Vocabulary of the properties.                                           *)
(***************************************************************************)
Done == pc = "done"
Accepted == pc = "done" /\ result.kind = "ok"
Rejected == pc = "done" /\ result.kind = "error"

\* the field list of the document, when it is an array
HasFieldList == IsArray(Get(schema, "fields"))
docFields == Get(schema, "fields").a
FieldAt(k) == docFields[k]
NameAt(k) == Get(FieldAt(k), "name")
TypeAt(k) == Get(FieldAt(k), "type")

\* s is a non-empty string
NonEmptyString(v) == v.t = "string" /\ v.s # ""
\* the text of a string value, "" for any other value
Text(v) == IF v.t = "string" THEN v.s ELSE ""

EightTags ==
    {"string", "number", "boolean", "timestamp", "list", "map", "stringSet",
     "numberSet"}
CollectionTags == {"list", "map", "stringSet", "numberSet"}

\* the rules in the order of the evaluation contract
TopRuleOrder ==
    <<"schemaVersion", "entityName", "description", "primaryKey", "fields">>
FieldRuleOrder ==
    <<"name", "type", "duplicate", "nameOverride", "collDefault", "collEnum",
      "collConstraints", "enum", "default", "constraints", "items", "mapFields">>

\* the document violates the presence rule of a top-level key
TopViolated(key) ==
    IF key = "fields"
    THEN ~HasFieldList \/ docFields = <<>>
    ELSE ~Truthy(Get(schema, key))

\* the document violates the primary-key shape rule
PrimaryKeyViolated ==
    ~NonEmptyString(Get(Get(schema, "primaryKey"), "partitionKey"))

\* field k of the document violates the rule
FieldViolated(rule, k) ==
    LET f == FieldAt(k)
        ty == Text(TypeAt(k))
    IN
    CASE rule = "name" -> ~NonEmptyString(NameAt(k))
      [] rule = "type" -> ty \notin EightTags
      [] rule = "duplicate" -> \E j \in 1..(k - 1) : NameAt(j) = NameAt(k)
      [] rule = "nameOverride" -> IsErr(checkNameOverride("", f))
      [] rule = "collDefault" ->
            ty \in CollectionTags /\ Get(f, "default") # Undef
      [] rule = "collEnum" ->
            ty \in CollectionTags /\ Truthy(Get(f, "enum"))
      [] rule = "collConstraints" ->
            ty \in CollectionTags /\ Truthy(Get(f, "constraints"))
      [] rule = "enum" -> IsErr(checkEnum("", f))
      [] rule = "default" -> IsErr(checkDefault("", ty, f))
      [] rule = "constraints" -> IsErr(checkConstraints("", ty, f))
      [] rule = "items" -> IsErr(checkItems("", ty, f))
      [] rule = "mapFields" -> IsErr(checkMapFields("", ty, f))

NoTopViolation ==
    /\ \A r \in 1..Len(TopRuleOrder) : ~TopViolated(TopRuleOrder[r])
    /\ ~PrimaryKeyViolated

FieldPasses(k) ==
    \A r \in 1..Len(FieldRuleOrder) : ~FieldViolated(FieldRuleOrder[r], k)

\* the least element of a non-empty set of numbers
Least(S) == CHOOSE x \in S : \A y \in S : x <= y

\* the first violated rule in the order of the contract, and the index of
\* the field it belongs to (0 for a rule of the document)
FirstViolation ==
    LET top == {r \in 1..Len(TopRuleOrder) : TopViolated(TopRuleOrder[r])} IN
    IF top # {} THEN [rule |-> TopRuleOrder[Least(top)], index |-> 0]
    ELSE IF PrimaryKeyViolated THEN [rule |-> "primaryKeyShape", index |-> 0]
    ELSE LET bad == {k \in 1..Len(docFields) : ~FieldPasses(k)} IN
        IF bad = {} THEN [rule |-> "none", index |-> 0]
        ELSE LET k == Least(bad)
                 rs == {r \in 1..Len(FieldRuleOrder) :
                            FieldViolated(FieldRuleOrder[r], k)}
             IN [rule |-> FieldRuleOrder[Least(rs)], index |-> k]

\* the rule an error message belongs to
RuleOfError(e) ==
    CASE e.rule = "MissingField" -> e.attr
      [] e.rule = "PrimaryKeyShape" -> "primaryKeyShape"
      [] e.rule = "FieldNameRequired" -> "name"
      [] e.rule = "InvalidType" -> "type"
      [] e.rule = "DuplicateName" -> "duplicate"
      [] e.rule \in {"NameOverrideNotString", "InvalidIdentifier", "ReservedWord"} ->
            "nameOverride"
      [] e.rule = "IllegalAttribute" ->
            (CASE e.attr = "default" -> "collDefault"
               [] e.attr = "enum" -> "collEnum"
               [] e.attr = "constraints" -> "collConstraints")
      [] e.rule = "EnumNotNonEmptyArray" -> "enum"
      [] e.rule = "DefaultTypeMismatch" -> "default"
      [] e.rule \in {"ConstraintWrongType", "NotNonNegativeInteger",
                     "PatternNotString", "InvalidPattern", "NotANumber",
                     "RangeInversion"} -> "constraints"
      [] e.rule \in {"ItemsRequired", "ItemsInvalidType", "ItemsMapFieldsRequired"} ->
            "items"
      [] e.rule = "MapFieldsRequired" -> "mapFields"
      [] e.rule \in {"NestedNameRequired", "NestedInvalidType", "DuplicateNestedName"} ->
            (IF Text(TypeAt(i)) = "list" THEN "items" ELSE "mapFields")
      [] OTHER -> "raw"

\* the error was thrown by the loop of validateFields
FieldLevel(e) ==
    e.rule \notin {"MissingField", "PrimaryKeyShape"} /\ RuleOfError(e) # "raw"

\* what the call reported: the rule of the error thrown and the field it was
\* thrown for, or none
Reported ==
    IF result.kind = "ok" THEN [rule |-> "none", index |-> 0]
    ELSE [rule |-> RuleOfError(result),
          index |-> IF FieldLevel(result) THEN i ELSE 0]

\* the fields whose rules the call has evaluated when it is over
Evaluated ==
    IF ~Done \/ ~NoTopViolation THEN {}
    ELSE IF result.kind = "ok" THEN 1..Len(docFields)
    ELSE 1..i

(***************************************************************************)
(* C1  Fail-fast in a fixed evaluation order.  A finished call reports     *)
(* exactly the first violated rule in the order: presence of               *)
(* schemaVersion, entityName, description, primaryKey, non-empty fields;   *)
(* primary-key shape; then field by field in declaration order, for each   *)
(* field name, type, duplicate name, nameOverride, collection exclusivity  *)
(* (default, enum, constraints), enum, default, constraints, list items,   *)
(* map fields; and it returns normally only when no rule is violated.  An  *)
(* error of a field rule names that field.  While the loop is at field i,  *)
(* every rule of every earlier field has passed.                           *)
(***************************************************************************)
C1_FailFastOrder ==
    /\ Done =>
        /\ Reported = FirstViolation
        /\ (Rejected /\ FieldLevel(result) /\ RuleOfError(result) # "name")
              => result.field = Text(NameAt(i))
    /\ pc = "fields" =>
        /\ NoTopViolation
        /\ \A j \in 1..(i - 1) : FieldPasses(j)
        /\ Len(validatedFields) = i - 1

\* a call that failed at the second field on a rule that is not the only
\* violated rule of that field
C1_Witness ==
    /\ Rejected
    /\ FieldLevel(result)
    /\ i = 2
    /\ \E r \in 1..Len(FieldRuleOrder) :
          /\ FieldViolated(FieldRuleOrder[r], i)
          /\ FieldRuleOrder[r] # RuleOfError(result)

(***************************************************************************)
(* C2  Missing top-level keys.  A document in which schemaVersion,         *)
(* entityName, description or primaryKey is missing, or in which fields is *)
(* missing, not an array or an empty array, is rejected with the           *)
(* missing-field error before the primary-key rule or any field rule is    *)
(* evaluated; the error names that key when every key before it in the     *)
(* order schemaVersion, entityName, description, primaryKey, fields passed *)
(* its presence check, and a key no later than it otherwise.               *)
(***************************************************************************)
KeyMissing(key) ==
    IF key = "fields"
    THEN Get(schema, "fields") = Undef \/ ~HasFieldList \/ docFields = <<>>
    ELSE Get(schema, key) = Undef

NothingEvaluated ==
    primaryKey = Undef /\ i = 1 /\ fieldNames = {} /\ validatedFields = <<>>

TopPresent == \A r \in 1..Len(TopRuleOrder) : ~TopViolated(TopRuleOrder[r])

PartitionKeyBad ==
    LET p == Get(Get(schema, "primaryKey"), "partitionKey") IN
        p = Undef \/ p = Str("") \/ TypeOf(p) # "string"

C3_PrimaryKeyShape ==
    TopPresent =>
        /\ Done => ((Rejected /\ result.rule = "PrimaryKeyShape") <=> PartitionKeyBad)
        /\ (pc # "start" /\ ~PartitionKeyBad) =>
              primaryKey =
                  Obj([partitionKey |-> Get(Get(schema, "primaryKey"), "partitionKey"),
                       sortKey |-> Get(Get(schema, "primaryKey"), "sortKey")])

\* a partitionKey that is present and truthy but not a string
C3_Witness ==
    /\ Rejected
    /\ TopPresent
    /\ result.rule = "PrimaryKeyShape"
    /\ Get(Get(schema, "primaryKey"), "partitionKey") = Num(1)
    /\ Get(Get(schema, "primaryKey"), "sortKey") = Str("ts")

(***************************************************************************)
(* C4  Field type.  For every field the loop evaluates whose name is       *)
(* valid: when type is absent or is not one of string, number, boolean,    *)
(* timestamp, list, map, stringSet, numberSet the call fails with the      *)
(* invalid-type error naming that field and listing these eight tags; when *)
(* type is one of the eight tags no invalid-type error is raised for it.   *)
(***************************************************************************)
C4_FieldType ==
    \A k \in Evaluated :
        NonEmptyString(NameAt(k)) =>
            IF TypeAt(k) = Undef \/ Text(TypeAt(k)) \notin EightTags
            THEN result = Err("InvalidType", NameAt(k).s, "type",
                              <<"string", "number", "boolean", "timestamp",
                                "list", "map", "stringSet", "numberSet">>)
            ELSE ~(Rejected /\ i = k /\ result.rule = "InvalidType")

\* the second field has a valid name and no type
C4_Witness ==
    /\ Rejected
    /\ result.rule = "InvalidType"
    /\ i = 2
    /\ TypeAt(2) = Undef
    /\ result.field = "x"

(***************************************************************************)
(* C5  Duplicate top-level names.  A document whose field list contains    *)
(* two fields with identical name is never accepted; when the loop         *)
(* evaluates a field with a valid name and type whose name is that of an   *)
(* earlier field, the call fails with the duplicate-field-name error       *)
(* citing the name; the names compared against are those of all fields     *)
(* evaluated before in the same list.                                      *)
(***************************************************************************)
C5_DuplicateFieldName ==
    /\ (Done /\ HasFieldList
          /\ \E j, k \in 1..Len(docFields) : j < k /\ NameAt(j) = NameAt(k))
          => Rejected
    /\ \A k \in Evaluated :
          (/\ NonEmptyString(NameAt(k))
           /\ Text(TypeAt(k)) \in EightTags
           /\ \E j \in 1..(k - 1) : NameAt(j) = NameAt(k))
              => result = Err("DuplicateName", NameAt(k).s, "name", <<>>)
    /\ pc = "fields" => fieldNames = {NameAt(j).s : j \in 1..(i - 1)}

\* the third field repeats the name of the first, not of the second
C5_Witness ==
    /\ Rejected
    /\ result.rule = "DuplicateName"
    /\ i = 3
    /\ NameAt(3) = NameAt(1)
    /\ NameAt(3) # NameAt(2)

(***************************************************************************)
(* C6  Name uniqueness per enclosing list.  When the nested-field list of  *)
(* an evaluated map field, or of the items of an evaluated list field,     *)
(* repeats a name (its entries up to the repetition having valid names and *)
(* types), the call fails with the duplicate-nested-field-name error       *)
(* citing the name and the parent field.  A document whose top-level keys  *)
(* are well-formed, whose fields carry only name, type, items and fields,  *)
(* have distinct names and well-formed nested lists without a repeated     *)
(* name, is accepted, also when a name occurs in two nested lists or at    *)
(* top level and in a nested list.                                         *)
(***************************************************************************)
ScalarTags == {"string", "number", "boolean", "timestamp"}

\* the nested-field list of field k: fields of a map, items.fields of a list
NestedOf(k) ==
    IF Text(TypeAt(k)) = "map" THEN Get(FieldAt(k), "fields")
    ELSE IF Text(TypeAt(k)) = "list" /\ Get(Get(FieldAt(k), "items"), "type") = Str("map")
    THEN Get(Get(FieldAt(k), "items"), "fields")
    ELSE Undef

NestedEntryValid(l, p) ==
    /\ NonEmptyString(Get(l[p], "name"))
    /\ Text(Get(l[p], "type")) \in ScalarTags

\* position p is the first repetition in the list l and nothing before it,
\* nor its own name and type, is invalid
FirstRepetition(l, p) ==
    /\ \A q \in 1..p : NestedEntryValid(l, q)
    /\ \E q \in 1..(p - 1) : Get(l[q], "name") = Get(l[p], "name")
    /\ \A q \in 1..(p - 1) : \A q2 \in 1..(q - 1) :
          Get(l[q], "name") # Get(l[q2], "name")

NestedListValid(v) ==
    /\ IsArray(v)
    /\ v.a # <<>>
    /\ \A p \in 1..Len(v.a) :
          /\ NestedEntryValid(v.a, p)
          /\ \A q \in 1..(p - 1) : Get(v.a[q], "name") # Get(v.a[p], "name")

\* field k carries only name, type, items and fields, and is well-formed up
\* to repetitions of names across lists
PlainFieldValid(k) ==
    LET f == FieldAt(k) IN
    /\ NonEmptyString(NameAt(k))
    /\ Text(TypeAt(k)) \in EightTags
    /\ \A j \in 1..(k - 1) : NameAt(j) # NameAt(k)
    /\ \A a \in {"nameOverride", "default", "enum", "constraints"} : Get(f, a) = Undef
    /\ Text(TypeAt(k)) = "list" =>
          /\ Get(f, "items").t = "object"
          /\ Text(Get(Get(f, "items"), "type")) \in ScalarTags \cup {"map"}
    /\ (Text(TypeAt(k)) = "list" /\ Get(Get(f, "items"), "type") = Str("map"))
          => NestedListValid(Get(Get(f, "items"), "fields"))
    /\ Text(TypeAt(k)) = "map" => NestedListValid(Get(f, "fields"))

C6_NestedNameUniqueness ==
    /\ \A k \in Evaluated :
          LET v == NestedOf(k) IN
          (/\ IsArray(v)
           /\ NonEmptyString(NameAt(k))
           /\ \A j \in 1..(k - 1) : NameAt(j) # NameAt(k)
           /\ \A a \in {"nameOverride", "default", "enum", "constraints"} :
                 Get(FieldAt(k), a) = Undef)
              => \A p \in 1..Len(v.a) :
                    FirstRepetition(v.a, p) =>
                        result = Err("DuplicateNestedName", NameAt(k).s,
                                     Get(v.a[p], "name").s, <<>>)
    /\ (Done /\ TopPresent /\ ~PartitionKeyBad
          /\ \A k \in 1..Len(docFields) : PlainFieldValid(k))
          => Accepted

\* accepted although "a" is a top-level name and a name of both nested lists
C6_Witness ==
    /\ Accepted
    /\ Len(docFields) = 3
    /\ NameAt(1) = Str("a")
    /\ IsArray(NestedOf(2))
    /\ IsArray(NestedOf(3))
    /\ \E p \in 1..Len(NestedOf(2).a) : Get(NestedOf(2).a[p], "name") = Str("a")
    /\ \E p \in 1..Len(NestedOf(3).a) : Get(NestedOf(3).a[p], "name") = Str("a")

(***************************************************************************)
(* Vocabulary of the constraint properties.                                *)
(***************************************************************************)
\* field k is evaluated and passes every rule that precedes constraints
ReachesConstraints(k) ==
    /\ k \in Evaluated
    /\ \A r \in 1..9 : ~FieldViolated(FieldRuleOrder[r], k)

\* field k passed all its rules
Passed(k) == k \in Evaluated /\ (Accepted \/ k < i)

ConstraintsAt(k) == Get(FieldAt(k), "constraints")
Key(k, key) == Get(ConstraintsAt(k), key)
ConstraintKeys == <<"minLength", "maxLength", "pattern", "min", "max">>
Expected(key) == IF key \in {"min", "max"} THEN "number" ELSE "string"

NonNegativeInteger(v) == v.t = "number" /\ v.num >= 0 /\ v.num % v.den = 0
PatternOk(v) == v.t = "string" /\ RegExpCompiles(v.s)
Leq(a, b) == a.num * b.den <= b.num * a.den

\* the string keys of field k are absent, or well-formed and well-ordered
StringKeysOk(k) ==
    /\ Key(k, "minLength") # Undef => NonNegativeInteger(Key(k, "minLength"))
    /\ Key(k, "maxLength") # Undef => NonNegativeInteger(Key(k, "maxLength"))
    /\ (Key(k, "minLength") # Undef /\ Key(k, "maxLength") # Undef)
          => Leq(Key(k, "minLength"), Key(k, "maxLength"))
    /\ Key(k, "pattern") # Undef => PatternOk(Key(k, "pattern"))

\* the number keys of field k are absent, or well-formed and well-ordered
NumberKeysOk(k) ==
    /\ Key(k, "min") # Undef => Key(k, "min").t = "number"
    /\ Key(k, "max") # Undef => Key(k, "max").t = "number"
    /\ (Key(k, "min") # Undef /\ Key(k, "max") # Undef)
          => Leq(Key(k, "min"), Key(k, "max"))

StringKeysAbsent(k) ==
    \A key \in {"minLength", "maxLength", "pattern"} : Key(k, key) = Undef
NumberKeysAbsent(k) == \A key \in {"min", "max"} : Key(k, key) = Undef

\* the call failed at field k with this error
FailsAt(k, e) == Rejected /\ i = k /\ result = e

(***************************************************************************)
(* C7  Collection exclusivity (as claimed).  For every evaluated field of  *)
(* type list, map, stringSet or numberSet whose name, type, uniqueness and *)
(* nameOverride rules pass: when default, enum or constraints is present   *)
(* the call fails with the error naming a present attribute and the field  *)
(* type; when all three are absent and the shape requirement of the type   *)
(* (items for list, fields for map) is met the field is accepted.          *)
(***************************************************************************)
C7_CollectionExclusivity ==
    \A k \in Evaluated :
        LET f == FieldAt(k)
            ty == Text(TypeAt(k))
            present == {a \in {"default", "enum", "constraints"} : Get(f, a) # Undef}
        IN
        (/\ \A r \in 1..4 : ~FieldViolated(FieldRuleOrder[r], k)
         /\ ty \in CollectionTags)
            => IF present # {}
               THEN /\ Rejected
                    /\ i = k
                    /\ result.rule = "IllegalAttribute"
                    /\ result.field = NameAt(k).s
                    /\ result.attr \in present
                    /\ result.info = <<ty>>
               ELSE (/\ ~FieldViolated("items", k)
                     /\ ~FieldViolated("mapFields", k)) => Passed(k)

(***************************************************************************)
(* C8  Constraint keys on a field of the wrong type.  For every evaluated  *)
(* field that reaches its constraints: when minLength, maxLength or        *)
(* pattern is present on a field that is not a string, or min or max on a  *)
(* field that is not a number (the string keys of a string field being     *)
(* well-formed), the call fails with the error identifying the field, the  *)
(* first such key and the expected type; number keys alone on a number     *)
(* field and string keys alone on a string field pass when well-formed and *)
(* well-ordered.                                                           *)
(***************************************************************************)
WrongTypeKeys(k) ==
    {n \in 1..Len(ConstraintKeys) :
        /\ Key(k, ConstraintKeys[n]) # Undef
        /\ Text(TypeAt(k)) # Expected(ConstraintKeys[n])}

C8_ConstraintWrongType ==
    \A k \in Evaluated :
        (ReachesConstraints(k) /\ Truthy(ConstraintsAt(k))) =>
            /\ (WrongTypeKeys(k) # {}
                  /\ (Text(TypeAt(k)) = "string" => StringKeysOk(k)))
                  => LET key == ConstraintKeys[Least(WrongTypeKeys(k))] IN
                      FailsAt(k, Err("ConstraintWrongType", NameAt(k).s, key,
                                     <<Expected(key)>>))
            /\ (Text(TypeAt(k)) = "number" /\ StringKeysAbsent(k) /\ NumberKeysOk(k))
                  => Passed(k)
            /\ (Text(TypeAt(k)) = "string" /\ NumberKeysAbsent(k) /\ StringKeysOk(k))
                  => Passed(k)

\* min on a string field whose own minLength is well-formed
C8_Witness ==
    /\ Rejected
    /\ i = 2
    /\ result = Err("ConstraintWrongType", "code", "min", <<"number">>)
    /\ TypeAt(2) = Str("string")
    /\ Key(2, "minLength") = Num(1)

(***************************************************************************)
(* C9  Range ordering.  For every evaluated field that reaches its         *)
(* constraints, with both min and max numbers on a number field (or both   *)
(* minLength and maxLength non-negative integers on a string field) and    *)
(* the other keys absent or well-formed: the call fails with the range     *)
(* error when lower > upper, and the field passes when lower <= upper,     *)
(* equality included.                                                      *)
(***************************************************************************)
C9_RangeOrdering ==
    \A k \in Evaluated :
        (ReachesConstraints(k) /\ Truthy(ConstraintsAt(k))) =>
            /\ (/\ Text(TypeAt(k)) = "number"
                /\ StringKeysAbsent(k)
                /\ Key(k, "min").t = "number"
                /\ Key(k, "max").t = "number")
                  => IF Leq(Key(k, "min"), Key(k, "max"))
                     THEN Passed(k)
                     ELSE FailsAt(k, Err("RangeInversion", NameAt(k).s, "min", <<"max">>))
            /\ (/\ Text(TypeAt(k)) = "string"
                /\ NumberKeysAbsent(k)
                /\ NonNegativeInteger(Key(k, "minLength"))
                /\ NonNegativeInteger(Key(k, "maxLength"))
                /\ Key(k, "pattern") # Undef => PatternOk(Key(k, "pattern")))
                  => IF Leq(Key(k, "minLength"), Key(k, "maxLength"))
                     THEN Passed(k)
                     ELSE FailsAt(k, Err("RangeInversion", NameAt(k).s, "minLength",
                                         <<"maxLength">>))

\* a number field with min equal to max is accepted
C9_Witness ==
    /\ Accepted
    /\ Len(docFields) = 2
    /\ TypeAt(2) = Str("number")
    /\ Key(2, "min") = Num(1)
    /\ Key(2, "max") = Num(1)

(***************************************************************************)
(* C10  Well-formed constraint values.  For every evaluated field that     *)
(* reaches its constraints: on a string field a present minLength or       *)
(* maxLength that is not a non-negative integer fails with the             *)
(* non-negative-integer error for that key, a present pattern that is not  *)
(* a string fails, and a pattern that does not compile fails with the      *)
(* validator's invalid-pattern error naming the field; on a number field a *)
(* present min or max that is not a number fails; a field that passes has  *)
(* only well-formed values; the raw SyntaxError of the regex compiler is   *)
(* never the outcome of a call.                                            *)
(***************************************************************************)
C10_WellFormedValues ==
    /\ Done => ~(Rejected /\ result.rule = "SyntaxError")
    /\ \A k \in Evaluated :
        (ReachesConstraints(k) /\ Truthy(ConstraintsAt(k))) =>
            LET lo == Key(k, "minLength")
                hi == Key(k, "maxLength")
                pt == Key(k, "pattern")
                n == NameAt(k).s
            IN
            /\ Text(TypeAt(k)) = "string" =>
                /\ (lo # Undef /\ ~NonNegativeInteger(lo))
                      => FailsAt(k, Err("NotNonNegativeInteger", n, "minLength", <<>>))
                /\ (/\ lo # Undef => NonNegativeInteger(lo)
                    /\ hi # Undef /\ ~NonNegativeInteger(hi))
                      => FailsAt(k, Err("NotNonNegativeInteger", n, "maxLength", <<>>))
                /\ (/\ lo # Undef => NonNegativeInteger(lo)
                    /\ hi # Undef => NonNegativeInteger(hi)
                    /\ (lo # Undef /\ hi # Undef) => Leq(lo, hi)
                    /\ pt # Undef)
                      => /\ pt.t # "string"
                            => FailsAt(k, Err("PatternNotString", n, "pattern", <<>>))
                         /\ (pt.t = "string" /\ ~RegExpCompiles(pt.s))
                            => FailsAt(k, Err("InvalidPattern", n, "pattern", <<>>))
                /\ Passed(k) => StringKeysOk(k)
            /\ Text(TypeAt(k)) = "number" =>
                /\ (StringKeysAbsent(k) /\ Key(k, "min") # Undef
                      /\ Key(k, "min").t # "number")
                      => FailsAt(k, Err("NotANumber", n, "min", <<>>))
                /\ (/\ StringKeysAbsent(k)
                    /\ Key(k, "min") # Undef => Key(k, "min").t = "number"
                    /\ Key(k, "max") # Undef /\ Key(k, "max").t # "number")
                      => FailsAt(k, Err("NotANumber", n, "max", <<>>))
                /\ Passed(k) => NumberKeysOk(k)

\* the pattern of the test suite, which does not compile
C10_Witness ==
    /\ FailsAt(2, Err("InvalidPattern", "code", "pattern", <<>>))
    /\ Key(2, "pattern") = Str("[invalid(regex")
    /\ Key(2, "minLength") = Num(0)
(***************************************************************************)
(* C11  Default values of scalar fields.  For every evaluated field of     *)
(* type string, number, boolean or timestamp whose earlier rules pass and  *)
(* whose default is present: when the runtime type of the default is       *)
(* string for a string or timestamp field, number for a number field,      *)
(* boolean for a boolean field, the default raises no error (the field     *)
(* passes when its constraints pass); otherwise the call fails with the    *)
(* type-mismatch error naming the field.  Any string is a valid timestamp  *)
(* default.                                                                *)
(***************************************************************************)
\* the runtime type a default of a field of this type must have
DefaultRuntimeType(ty) == IF ty = "timestamp" THEN "string" ELSE ty

\* field k is evaluated and passes every rule that precedes default
ReachesDefault(k) ==
    /\ k \in Evaluated
    /\ \A r \in 1..8 : ~FieldViolated(FieldRuleOrder[r], k)

C11_DefaultType ==
    \A k \in Evaluated :
        LET ty == Text(TypeAt(k))
            default == Get(FieldAt(k), "default")
        IN
        (ReachesDefault(k) /\ ty \in ScalarTags /\ default # Undef) =>
            IF TypeOf(default) = DefaultRuntimeType(ty)
            THEN /\ ~(Rejected /\ i = k /\ result.rule = "DefaultTypeMismatch")
                 /\ ~FieldViolated("constraints", k) => Passed(k)
            ELSE FailsAt(k, Err("DefaultTypeMismatch", NameAt(k).s, "default", <<>>))

\* a timestamp field whose default is a string that is no date is accepted
C11_Witness ==
    /\ Accepted
    /\ TypeAt(1) = Str("timestamp")
    /\ Get(FieldAt(1), "default") = Str("not-a-date")
    /\ Get(result.value, "fields").a[1].o.default = Str("not-a-date")
(***************************************************************************)
(* C12  enum is a non-empty array (as claimed).  For every evaluated field *)
(* whose name, type, uniqueness, nameOverride and collection rules pass:   *)
(* when enum is present (null counted as absent) and is not an array, or   *)
(* is an empty array, the call fails with the enum error naming the field. *)
(***************************************************************************)
C12_EnumNonEmptyArray ==
    \A k \in Evaluated :
        LET enum == Get(FieldAt(k), "enum") IN
        (/\ \A r \in 1..7 : ~FieldViolated(FieldRuleOrder[r], k)
         /\ enum # Undef /\ enum # Null
         /\ (~IsArray(enum) \/ enum.a = <<>>))
            => FailsAt(k, Err("EnumNotNonEmptyArray", NameAt(k).s, "enum", <<>>))
(***************************************************************************)
(* C13  nameOverride.  For every evaluated field whose name, type and      *)
(* uniqueness rules pass and whose nameOverride is present (neither        *)
(* undefined nor null): a nameOverride that is not a string fails; a       *)
(* string that is not a letter or underscore followed by letters, digits   *)
(* and underscores fails with the invalid-identifier error; a member of    *)
(* the reserved set fails with the reserved-keyword error naming the word  *)
(* (every member of the set has the shape of an identifier); any other     *)
(* identifier raises no error and is copied to the output when the field   *)
(* passes its later rules.                                                 *)
(***************************************************************************)
\* the text is a letter or "_" followed by letters, digits and "_"
IdentifierShape(s) ==
    LET cs == Chars(s) IN
        /\ cs # <<>>
        /\ Head(cs) \notin Digits
        /\ \A p \in DOMAIN cs : cs[p] \in Letters \cup Digits \cup {"_"}

NameOverrideAt(k) == Get(FieldAt(k), "nameOverride")

\* field k is evaluated and passes the rules that precede nameOverride
ReachesNameOverride(k) ==
    /\ k \in Evaluated
    /\ \A r \in 1..3 : ~FieldViolated(FieldRuleOrder[r], k)

\* field k passes every rule that follows nameOverride
LaterRulesPass(k) ==
    \A r \in 5..Len(FieldRuleOrder) : ~FieldViolated(FieldRuleOrder[r], k)

C13_NameOverride ==
    \A k \in Evaluated :
        LET no == NameOverrideAt(k) IN
        (ReachesNameOverride(k) /\ no # Undef /\ no # Null) =>
            IF no.t # "string"
            THEN FailsAt(k, Err("NameOverrideNotString", NameAt(k).s,
                                "nameOverride", <<>>))
            ELSE /\ no.s \in RESERVED_WORDS =>
                      FailsAt(k, Err("ReservedWord", NameAt(k).s, no.s, <<>>))
                 /\ ~IdentifierShape(no.s) =>
                      FailsAt(k, Err("InvalidIdentifier", NameAt(k).s, no.s, <<>>))
                 /\ (IdentifierShape(no.s) /\ no.s \notin RESERVED_WORDS
                        /\ LaterRulesPass(k)) =>
                      /\ Passed(k)
                      /\ Get(validatedFields[k], "nameOverride") = no

\* the reserved word "class" of the test suite is reported as reserved
C13_Witness ==
    /\ FailsAt(2, Err("ReservedWord", "code", "class", <<>>))
    /\ NameOverrideAt(2) = Str("class")
(***************************************************************************)
(* C14  The reserved set covers every target language (as claimed).  For   *)
(* every evaluated field whose name, type and uniqueness rules pass and    *)
(* whose nameOverride is a keyword or reserved literal of Java, of Python  *)
(* or of Go, the call fails with the reserved-keyword error naming the     *)
(* word; no field that passed carries such a nameOverride.                 *)
(***************************************************************************)
\* Java Language Specification 3.9: keywords, and the literals true, false, null
JavaKeywords ==
    {"abstract", "assert", "boolean", "break", "byte", "case", "catch",
     "char", "class", "const", "continue", "default", "do", "double", "else",
     "enum", "extends", "final", "finally", "float", "for", "goto", "if",
     "implements", "import", "instanceof", "int", "interface", "long",
     "native", "new", "package", "private", "protected", "public", "return",
     "short", "static", "strictfp", "super", "switch", "synchronized",
     "this", "throw", "throws", "transient", "try", "void", "volatile",
     "while", "true", "false", "null"}

\* Python 3 language reference 2.3.1: keywords (None, True, False included)
PythonKeywords ==
    {"False", "None", "True", "and", "as", "assert", "async", "await",
     "break", "class", "continue", "def", "del", "elif", "else", "except",
     "finally", "for", "from", "global", "if", "import", "in", "is",
     "lambda", "nonlocal", "not", "or", "pass", "raise", "return", "try",
     "while", "with", "yield"}

\* Go language specification: keywords
GoKeywords ==
    {"break", "case", "chan", "const", "continue", "default", "defer", "else",
     "fallthrough", "for", "func", "go", "goto", "if", "import", "interface",
     "map", "package", "range", "return", "select", "struct", "switch",
     "type", "var"}

TargetKeywords == JavaKeywords \cup PythonKeywords \cup GoKeywords

C14_ReservedUnion ==
    \A k \in Evaluated :
        LET no == NameOverrideAt(k) IN
        (ReachesNameOverride(k) /\ no.t = "string" /\ no.s \in TargetKeywords) =>
            /\ FailsAt(k, Err("ReservedWord", NameAt(k).s, no.s, <<>>))
            /\ ~Passed(k)
(***************************************************************************)
(* C15  Items of a list field.  For every evaluated field of type list     *)
(* whose earlier rules pass: when items is not an object whose type is one *)
(* of string, number, boolean, timestamp, map (items absent, items.type    *)
(* list or anything else) the call fails at this field with the error      *)
(* about items; when items is such an object with a scalar type the field  *)
(* passes; and the items.type of the output of a field that passed equals  *)
(* the items.type of the input.                                            *)
(***************************************************************************)
ItemsAt(k) == Get(FieldAt(k), "items")

\* items of field k is an object whose type is one of the five item types
ItemsWellTyped(k) ==
    /\ ItemsAt(k).t = "object"
    /\ Text(Get(ItemsAt(k), "type")) \in ScalarTags \cup {"map"}

\* field k is evaluated and passes every rule that precedes the items rule
ReachesItems(k) ==
    /\ k \in Evaluated
    /\ \A r \in 1..10 : ~FieldViolated(FieldRuleOrder[r], k)

C15_ListItems ==
    \A k \in Evaluated :
        (ReachesItems(k) /\ TypeAt(k) = Str("list")) =>
            /\ ~ItemsWellTyped(k) =>
                  /\ Rejected /\ i = k
                  /\ result.rule \in {"ItemsRequired", "ItemsInvalidType"}
                  /\ result.field = NameAt(k).s
                  /\ ItemsAt(k) = Undef => result.rule = "ItemsRequired"
                  /\ Get(ItemsAt(k), "type") = Str("list") =>
                        result = Err("ItemsInvalidType", NameAt(k).s, "items",
                                     <<"string", "number", "boolean", "timestamp",
                                       "map">>)
            /\ (ItemsWellTyped(k) /\ Get(ItemsAt(k), "type") # Str("map"))
                  => Passed(k)
            /\ Passed(k) =>
                  /\ ItemsWellTyped(k)
                  /\ Get(Get(validatedFields[k], "items"), "type")
                        = Get(ItemsAt(k), "type")

\* a list of lists is rejected with the error listing the five item types
C15_Witness ==
    /\ Rejected /\ i = 2
    /\ TypeAt(2) = Str("list")
    /\ Get(ItemsAt(2), "type") = Str("list")
    /\ result.rule = "ItemsInvalidType"
(***************************************************************************)
(* C16  Nested fields, one level deep.  For every evaluated field of type  *)
(* map, and every evaluated list field whose items.type is map, whose      *)
(* earlier rules pass: when the nested-field list is not a non-empty array *)
(* the call fails with the error asking for a non-empty fields array; when *)
(* its first invalid entry has a valid name and a type outside string,     *)
(* number, boolean, timestamp (a collection type included) the call fails  *)
(* with the nested invalid-type error naming the entry and the parent; a   *)
(* field that passed has a non-empty array of entries with non-empty       *)
(* string names and scalar types, and its output entries carry name and    *)
(* type only.                                                              *)
(***************************************************************************)
\* field k is a map, or a list of maps
HasNestedList(k) ==
    \/ TypeAt(k) = Str("map")
    \/ TypeAt(k) = Str("list") /\ Get(ItemsAt(k), "type") = Str("map")

\* the nested-field list of field k in the output
NestedOut(k) ==
    IF TypeAt(k) = Str("map") THEN Get(validatedFields[k], "fields")
    ELSE Get(Get(validatedFields[k], "items"), "fields")

\* the first entry of the list l that has an invalid name or type
FirstInvalidEntry(l, p) ==
    /\ ~NestedEntryValid(l, p)
    /\ \A q \in 1..(p - 1) :
          /\ NestedEntryValid(l, q)
          /\ \A q2 \in 1..(q - 1) : Get(l[q], "name") # Get(l[q2], "name")

C16_NestedFields ==
    \A k \in Evaluated :
        LET v == NestedOf(k)
            n == NameAt(k).s
        IN
        (ReachesItems(k) /\ HasNestedList(k)) =>
            /\ (~IsArray(v) \/ v.a = <<>>) =>
                  FailsAt(k, Err(IF TypeAt(k) = Str("map")
                                 THEN "MapFieldsRequired"
                                 ELSE "ItemsMapFieldsRequired", n, "fields", <<>>))
            /\ IsArray(v) =>
                  \A p \in 1..Len(v.a) :
                      (FirstInvalidEntry(v.a, p) /\ NonEmptyString(Get(v.a[p], "name")))
                          => FailsAt(k, Err("NestedInvalidType", n,
                                            Get(v.a[p], "name").s,
                                            <<"string", "number", "boolean",
                                              "timestamp">>))
            /\ Passed(k) =>
                  /\ IsArray(v) /\ v.a # <<>>
                  /\ \A p \in 1..Len(v.a) : NestedEntryValid(v.a, p)
                  /\ NestedOut(k) =
                        Arr([p \in 1..Len(v.a) |->
                                Obj([name |-> Get(v.a[p], "name"),
                                     type |-> Get(v.a[p], "type")])])

\* a map field whose second nested field is a list is rejected
C16_Witness ==
    /\ FailsAt(2, Err("NestedInvalidType", "addr", "tags",
                      <<"string", "number", "boolean", "timestamp">>))
    /\ TypeAt(2) = Str("map")
    /\ Len(NestedOf(2).a) = 2
    /\ Get(NestedOf(2).a[2], "type") = Str("list")
(***************************************************************************)
(* C17  Defaulting of required.  In the output of every accepted document, *)
(* and for every field that has passed while the loop runs, required is    *)
(* false when the input field omitted required (undefined, or null, which  *)
(* the ?? operator treats alike) and is the input's value when one was     *)
(* given, the falsy values false, 0 included; for scalar and collection    *)
(* fields alike.                                                           *)
(***************************************************************************)
\* field k of the output of an accepted document
OutFieldAt(k) == Get(result.value, "fields").a[k]

RequiredDefaulted(in, out) ==
    IF Get(in, "required") \in {Undef, Null}
    THEN Get(out, "required") = Bool(FALSE)
    ELSE Get(out, "required") = Get(in, "required")

C17_RequiredDefault ==
    /\ Accepted =>
          /\ Len(Get(result.value, "fields").a) = Len(docFields)
          /\ \A k \in 1..Len(docFields) : RequiredDefaulted(FieldAt(k), OutFieldAt(k))
    /\ pc = "fields" =>
          \A k \in 1..Len(validatedFields) :
              RequiredDefaulted(FieldAt(k), validatedFields[k])

\* a list field that omits required next to a number field that gives it
C17_Witness ==
    /\ Accepted
    /\ Len(docFields) = 2
    /\ TypeAt(1) = Str("list")
    /\ Get(FieldAt(1), "required") = Undef
    /\ Get(OutFieldAt(1), "required") = Bool(FALSE)
    /\ Get(FieldAt(2), "required") = Bool(TRUE)
    /\ Get(OutFieldAt(2), "required") = Bool(TRUE)
(***************************************************************************)
(* C18  Pass-through.  The output of every accepted document carries the   *)
(* input's schemaVersion, entityName, description, primaryKey.partitionKey *)
(* and primaryKey.sortKey, and for each field, in order, the input's name, *)
(* nameOverride, type, default, enum, description, constraints and         *)
(* annotations; an attribute the input omits is undefined in the output,   *)
(* never an empty string, array or object.  The same holds of every record *)
(* the loop has pushed.                                                    *)
(***************************************************************************)
CopiedAttributes ==
    {"name", "nameOverride", "type", "default", "enum", "description",
     "constraints", "annotations"}

CopiedFrom(in, out) ==
    \A a \in CopiedAttributes :
        /\ Get(out, a) = Get(in, a)
        /\ Get(in, a) = Undef =>
              Get(out, a) \notin {Str(""), Arr(<<>>), Obj(<<>>), Null}

C18_PassThrough ==
    /\ Accepted =>
          /\ \A key \in {"schemaVersion", "entityName", "description"} :
                Get(result.value, key) = Get(schema, key)
          /\ \A key \in {"partitionKey", "sortKey"} :
                Get(Get(result.value, "primaryKey"), key)
                    = Get(Get(schema, "primaryKey"), key)
          /\ Len(Get(result.value, "fields").a) = Len(docFields)
          /\ \A k \in 1..Len(docFields) : CopiedFrom(FieldAt(k), OutFieldAt(k))
    /\ pc = "fields" =>
          \A k \in 1..Len(validatedFields) :
              CopiedFrom(FieldAt(k), validatedFields[k])

\* annotations are carried over and the omitted enum stays undefined
C18_Witness ==
    /\ Accepted
    /\ Get(FieldAt(1), "annotations") = Obj([customField |-> Str("customValue")])
    /\ Get(OutFieldAt(1), "annotations") = Obj([customField |-> Str("customValue")])
    /\ Get(FieldAt(1), "enum") = Undef
    /\ Get(OutFieldAt(1), "enum") = Undef
    /\ Get(FieldAt(1), "description") = Undef
    /\ Get(FieldAt(1), "default") # Undef
(***************************************************************************)
(* C19  Determinism.  Among the calls made one after the other by a        *)
(* caller, any two calls on the same document have the same outcome: the   *)
(* same normalized output when the document is valid, the same error (rule *)
(* and field reference) when it is not, whatever documents were validated  *)
(* between them.                                                           *)
(***************************************************************************)
C19_Deterministic ==
    \A c1 \in observed : \A c2 \in observed :
        c1[1] = c2[1] => c1[2] = c2[2]

\* the third call is over, the first and third were on the same valid
\* document, and a different document was validated between them
C19_Witness ==
    /\ calls = 3
    /\ Accepted
    /\ <<schema, result>> \in observed
    /\ Len(docFields) = 2
    /\ \E c \in observed : c[1] # schema /\ c[2].kind = "error"
(***************************************************************************)
(* C20  Errors identify the field and the rule (as claimed).  Every error  *)
(* thrown by the loop of validateFields, by validateListItems, by          *)
(* validateNestedFields or by validateFieldConstraints carries a field     *)
(* reference, which is the name of the field the loop is at when that      *)
(* field has one, and names the rule or attribute violated.                *)
(***************************************************************************)
C20_ErrorsIdentifyField ==
    (Rejected /\ FieldLevel(result)) =>
        /\ result.field # ""
        /\ NonEmptyString(NameAt(i)) => result.field = NameAt(i).s
        /\ result.rule # ""
(***************************************************************************)
(* Vocabulary of the properties on variants of a document.                 *)
(***************************************************************************)
\* v is a string or a number
StringOrNumber(v) == v.t \in {"string", "number"}

\* the objects a and b have the same keys and differ at most at key k
DifferOnlyAt(a, b, k) ==
    /\ a.t = "object" /\ b.t = "object"
    /\ DOMAIN a.o = DOMAIN b.o
    /\ \A x \in DOMAIN a.o \ {k} : a.o[x] = b.o[x]

\* two outcomes are the same but for key k of the value returned
SameOutcomeBut(r1, r2, k) ==
    \/ IsErr(r1) /\ r1 = r2
    \/ r1.kind = "ok" /\ r2.kind = "ok" /\ DifferOnlyAt(r1.value, r2.value, k)

\* the primaryKey object names its keys with non-empty strings
KeyNamesWellFormed(pk) ==
    /\ NonEmptyString(Get(pk, "partitionKey"))
    /\ Get(pk, "sortKey") = Undef \/ NonEmptyString(Get(pk, "sortKey"))

\* some field of document d is named by key k of its primaryKey
KeyNamesAField(d, k) ==
    \E n \in 1..Len(Get(d, "fields").a) :
        Get(Get(d, "fields").a[n], "name") = Get(Get(d, "primaryKey"), k)

(***************************************************************************)
(* C21: the version marker is opaque.  Two documents that differ only in   *)
(* the value of schemaVersion, a string or a number in both, get the same  *)
(* outcome: both are rejected with the same error, or both are accepted    *)
(* with outputs that differ only in schemaVersion.                         *)
(* Stated on the history of the calls made by one caller.  The code tests  *)
(* the marker for truthiness, so 0 and '' are rejected as missing.         *)
(***************************************************************************)
C21_VersionOpaque ==
    \A c1, c2 \in observed :
        (/\ DifferOnlyAt(c1[1], c2[1], "schemaVersion")
         /\ StringOrNumber(Get(c1[1], "schemaVersion"))
         /\ StringOrNumber(Get(c2[1], "schemaVersion")))
        => SameOutcomeBut(c1[2], c2[2], "schemaVersion")

(***************************************************************************)
(* C22: key names are never looked up in the field list.  Two documents    *)
(* that differ only in well-formed key names get the same outcome but for  *)
(* primaryKey, whether or not partitionKey or sortKey is the name of a     *)
(* declared field; so a document whose partitionKey names no field is      *)
(* accepted when its variant whose partitionKey names a field is.          *)
(***************************************************************************)
C22_NoKeyCrossCheck ==
    \A c1, c2 \in observed :
        (/\ DifferOnlyAt(c1[1], c2[1], "primaryKey")
         /\ KeyNamesWellFormed(Get(c1[1], "primaryKey"))
         /\ KeyNamesWellFormed(Get(c2[1], "primaryKey")))
        => /\ SameOutcomeBut(c1[2], c2[2], "primaryKey")
           /\ c1[2].kind = "ok" =>
                Get(c1[2].value, "primaryKey") = Get(c1[1], "primaryKey")

C22_Witness ==
    \E c1, c2 \in observed :
        /\ DifferOnlyAt(c1[1], c2[1], "primaryKey")
        /\ KeyNamesAField(c1[1], "partitionKey")
        /\ KeyNamesAField(c1[1], "sortKey")
        /\ ~KeyNamesAField(c2[1], "partitionKey")
        /\ ~KeyNamesAField(c2[1], "sortKey")
        /\ Get(c2[1], "primaryKey") # Get(c1[1], "primaryKey")
        /\ c1[2].kind = "ok" /\ c2[2].kind = "ok"

(***************************************************************************)
(* Vocabulary of the properties of the loader.                             *)
(***************************************************************************)
\* the k-th operation of the loader is of kind op
IsOp(k, op) == k \in 1..Len(trace) /\ trace[k].op = op

\* the k-th operation is a load that returned an instance
LoadedAt(k) == IsOp(k, "load") /\ trace[k].outcome.kind = "ok"

\* no reset was made after operation j and before operation k
NoResetBetween(j, k) == \A r \in (j + 1)..(k - 1) : ~IsOp(r, "reset")

\* a load returned an instance before operation k and no reset followed it
LoadedSinceReset(k) ==
    \E j \in 1..(k - 1) : LoadedAt(j) /\ NoResetBetween(j, k)

\* the resets made so far
Resets == {k \in 1..Len(trace) : IsOp(k, "reset")}

\* the location holds no rule-set that compiles
BadLocation(path) == ReadOutcome(path) # "compiled"

C24_ResetClears ==
    /\ \A k \in 1..Len(trace) :
        IsOp(k, "info") =>
            /\ (trace[k].outcome.kind = "ok") = LoadedSinceReset(k)
            /\ trace[k].outcome.kind # "ok" =>
                    trace[k].outcome.message = "Schema not loaded"
    /\ (getSchemaInfo(compiledSchema).kind = "ok")
            = LoadedSinceReset(Len(trace) + 1)
    /\ \A k \in 1..Len(trace) :
        (IsOp(k, "load") /\ ~BadLocation(trace[k].location)) => LoadedAt(k)

C24_Witness ==
    /\ Len(trace) >= 4
    /\ LoadedAt(1)
    /\ IsOp(2, "reset")
    /\ IsOp(3, "info") /\ trace[3].outcome = InfoError
    /\ LoadedAt(4)
    /\ getSchemaInfo(compiledSchema).kind = "ok"

(***************************************************************************)
(* C25: a load from a location that is missing or malformed fails with a   *)
(* load error that names the location and wraps the cause, and returns no  *)
(* validation function.  While the slot holds an instance loadSchema       *)
(* returns it without reading the location it was given.                   *)
(***************************************************************************)
C25_LoadError ==
    \A k \in 1..Len(trace) :
        (IsOp(k, "load") /\ BadLocation(trace[k].location))
        => /\ trace[k].outcome.kind = "error"
           /\ trace[k].outcome.location = trace[k].location
           /\ trace[k].outcome.cause = ReadOutcome(trace[k].location)
           /\ trace[k].outcome.instance = NoInstance

(***************************************************************************)
(* Vocabulary of the properties of countEntitiesAndFields.                 *)
(***************************************************************************)
\* v is undefined or null
Absent(v) == v.t \in {"undefined", "null"}

\* the document declares one entity at the top level, with a field list
SingleEntityDocument ==
    /\ NonEmptyString(Get(schema, "entityName"))
    /\ IsArray(Get(schema, "fields"))
    /\ Absent(Get(schema, "entities"))

\* the counts returned
Counts(e, f) == Ok(Obj([entityCount |-> Num(e), fieldCount |-> Num(f)]))

\* the entities of the document, all of them objects
EntityObjects ==
    /\ IsArray(Get(schema, "entities"))
    /\ \A k \in 1..Len(Get(schema, "entities").a) :
        Get(schema, "entities").a[k].t = "object"

\* the number of fields the first n entities declare, an entity without a
\* field list counting for none
RECURSIVE DeclaredFields(_)
DeclaredFields(n) ==
    IF n = 0 THEN 0
    ELSE LET fs == Get(Get(schema, "entities").a[n], "fields") IN
         DeclaredFields(n - 1) + (IF IsArray(fs) THEN Len(fs.a) ELSE 0)

(***************************************************************************)
(* C26: countEntitiesAndFields counts what the document declares: for a    *)
(* single-entity document with k declared fields it returns entityCount 1  *)
(* and fieldCount k.  The code counts json.entities only, which the        *)
(* single-entity format does not have.                                     *)
(***************************************************************************)
C26_CountsDeclared ==
    (Done /\ SingleEntityDocument)
    => result = Counts(1, Len(Get(schema, "fields").a))

(***************************************************************************)
(* C27: countEntitiesAndFields is tolerant of absent parts.  A document    *)
(* with neither an entities array nor a field list gives entityCount 0     *)
(* and fieldCount 0 and no error; in an entities array, an entity without  *)
(* a field list counts for 0 fields and the others for the length of       *)
(* their lists.                                                            *)
(***************************************************************************)
C27_Tolerant ==
    Done =>
        /\ (Absent(Get(schema, "entities")) /\ Absent(Get(schema, "fields")))
            => result = Counts(0, 0)
        /\ EntityObjects
            => result = Counts(Len(Get(schema, "entities").a),
                               DeclaredFields(Len(Get(schema, "entities").a)))

C27_Witness ==
    /\ Done
    /\ EntityObjects
    /\ Len(Get(schema, "entities").a) = 2
    /\ Absent(Get(Get(schema, "entities").a[1], "fields"))
    /\ IsArray(Get(Get(schema, "entities").a[2], "fields"))
    /\ result = Counts(2, 2)

(***************************************************************************)
(* Vocabulary of the properties of interleaved calls.                      *)
(***************************************************************************)
\* two fields of document d have the same name
RepeatsAName(d) ==
    \E j, k \in 1..Len(Get(d, "fields").a) :
        /\ j < k
        /\ Get(Get(d, "fields").a[j], "name") = Get(Get(d, "fields").a[k], "name")

\* some nested-field list of document d has two entries of the same name
RepeatsANestedName(d) ==
    \E n \in 1..Len(Get(d, "fields").a) :
        LET nested == Get(Get(d, "fields").a[n], "fields") IN
        /\ IsArray(nested)
        /\ \E j, k \in 1..Len(nested.a) :
            j < k /\ Get(nested.a[j], "name") = Get(nested.a[k], "name")

\* every call that is over ended as the call alone ends
AsWhenAlone == \A c \in observed : c[2] = validateSchema(c[1])

\* a duplicate-name error was raised only for a document that repeats a name
OwnDuplicatesOnly ==
    \A c \in observed :
        /\ (IsErr(c[2]) /\ c[2].rule = "DuplicateName") => RepeatsAName(c[1])
        /\ (IsErr(c[2]) /\ c[2].rule = "DuplicateNestedName")
            => RepeatsANestedName(c[1])

(***************************************************************************)
(* C28: validateSchema keeps no state between calls and has no part in     *)
(* the loader's cache.  In every interleaving of calls on documents that   *)
(* share names with loads, resets and getSchemaInfo, each call ends as it  *)
(* ends alone, a duplicate-name error is raised only for a document that   *)
(* itself repeats a name, no step of validateSchema changes the state of   *)
(* the loader and no loader operation changes the state of a call.         *)
(***************************************************************************)
C28_NoSharedState ==
    /\ [](AsWhenAlone /\ OwnDuplicatesOnly)
    /\ [][(callVars' # callVars) => (loaderVars' = loaderVars)]_vars

C28_Witness ==
    /\ calls = 3
    /\ Len(trace) >= 2
    /\ compiledSchema = NoInstance
    /\ \E c1, c2 \in observed :
        /\ c1[2].kind = "ok" /\ c2[2].kind = "ok" /\ c1[1] # c2[1]
    /\ \E c \in observed : IsErr(c[2]) /\ c[2].rule = "DuplicateName"

(***************************************************************************)
(* Vocabulary of the properties of the shape of the output.                *)
(***************************************************************************)
\* the field list of the output
OutFields == Get(result.value, "fields").a

\* v is defined
Defined(v) == v # Undef

\* l is a list of entries made of a name and a scalar type, and no more
NestedShape(l) ==
    /\ IsArray(l)
    /\ \A p \in 1..Len(l.a) :
        /\ l.a[p].t = "object"
        /\ DOMAIN l.a[p].o = {"name", "type"}
        /\ Get(l.a[p], "name").t = "string"
        /\ Text(Get(l.a[p], "type")) \in ScalarTags

\* the shape of field f of the output
FieldShape(f) ==
    /\ Defined(Get(f, "items")) = (Get(f, "type") = Str("list"))
    /\ Defined(Get(f, "fields")) = (Get(f, "type") = Str("map"))
    /\ Defined(Get(f, "fields")) => NestedShape(Get(f, "fields"))
    /\ Defined(Get(f, "items")) =>
        /\ Get(f, "items").t = "object"
        /\ Defined(Get(Get(f, "items"), "fields"))
            = (Get(Get(f, "items"), "type") = Str("map"))
        /\ Defined(Get(Get(f, "items"), "fields"))
            => NestedShape(Get(Get(f, "items"), "fields"))

\* some entry of the list l has an attribute besides name and type
HasExtraAttributes(l) ==
    /\ IsArray(l)
    /\ \E p \in 1..Len(l.a) :
        l.a[p].t = "object" /\ DOMAIN l.a[p].o \ {"name", "type"} # {}

(***************************************************************************)
(* C29: the shape of every output.  The field list of the output has the   *)
(* length of the input's and the same names and types in the same order;   *)
(* a field has items exactly when its type is list and a nested-field      *)
(* list exactly when its type is map; items has a nested-field list        *)
(* exactly when items.type is map; every nested-field entry is made of a   *)
(* name and a scalar type and nothing else.  So items or fields given on   *)
(* a field of another type, and further attributes of nested fields, are   *)
(* left out of the output and the document is not rejected for them.       *)
(***************************************************************************)
C29_OutputShape ==
    Accepted =>
        /\ Len(OutFields) = Len(docFields)
        /\ \A k \in 1..Len(docFields) :
            /\ Get(OutFields[k], "name") = NameAt(k)
            /\ Get(OutFields[k], "type") = TypeAt(k)
            /\ FieldShape(OutFields[k])

C29_Witness ==
    /\ Accepted
    /\ \E k \in 1..Len(docFields) :
        /\ TypeAt(k) = Str("map")
        /\ Defined(ItemsAt(k))
        /\ HasExtraAttributes(Get(FieldAt(k), "fields"))
        /\ ~Defined(Get(OutFields[k], "items"))
        /\ NestedShape(Get(OutFields[k], "fields"))

(***************************************************************************)
(* C30: normalization is idempotent.  When validateSchema is called on     *)
(* the value an earlier call returned, the call is accepted and returns    *)
(* that same value.                                                        *)
(***************************************************************************)
C30_Idempotent ==
    /\ \A c0, c \in observed :
        (c0[2].kind = "ok" /\ c[1] = c0[2].value) => c[2] = c0[2]
    /\ (calls > 1 /\ Done) => result = Ok(schema)

C30_Witness ==
    /\ calls = 2
    /\ Accepted
    /\ \E c0 \in observed :
        /\ c0[2] = Ok(schema)
        /\ c0[1] # schema
        /\ \E k \in 1..Len(docFields) :
            /\ TypeAt(k) = Str("list")
            /\ Get(ItemsAt(k), "type") = Str("map")
    /\ result = Ok(schema)

====
